---- MODULE Spec2Model ----
(***************************************************************************)
(* A model of the Jacuzzi spa client (SpaClient, SpaHomebridgePlatform,    *)
(* ThermostatAccessory): the session manager with its timers, the replay   *)
(* queue of the platform, the outbound codec (sendMessageToSpa, decrypt,   *)
(* compute_checksum_encrypted) and the target-temperature command engine.  *)
(*                                                                         *)
(* Byte arrays are sequences; the source's 0-based index i is i+1 here.    *)
(* Times are milliseconds.                                                 *)
(***************************************************************************)
EXTENDS Integers, Sequences, FiniteSets, TLC

VARIABLES
    \* ---- Session Manager (SpaClient) ----
    socket,                     \* this.socket: "none" (undefined), "connecting", "open", "ended"
    liveSockets,                \* sockets created by net.connect and neither destroyed nor ended
    isCurrentlyConnectedToSpa,
    reconnecting,
    reconnectTimers,            \* remaining ms of every pending setTimeout of reconnect()
    faultTimeouts,              \* remaining ms of every pending 5 s setTimeout of successfullyConnectedToSpa
    faultCheckIntervalId,       \* TRUE when the field holds an interval id
    orphanIntervals,            \* fault-check intervals still armed whose id the field no longer holds
    stateUpdateCheckIntervalId, \* TRUE when the field holds an interval id
    stateUpdateCheckRemaining,  \* ms until the liveness interval fires next
    receivedStateUpdate,
    lastStateBytes,             \* the last status frame kept for comparison; << >> when empty
    lastColorStateBytes,        \* the last light-status frame kept for comparison
    lastFaultBytes,             \* the contents of the last fault-log frame
    errorLog,                   \* the log.error messages written so far
    repeatErrors,               \* 'error' events the last failed socket may still emit
    deviceUp,                   \* environment: the spa accepts connections
    hostShutdown,               \* the host's SHUTDOWN event has been handled
    accurateConfigReadFromSpa,
    \* ---- Platform / accessory layer ----
    recordedActions,
    replayed,                   \* functions invoked by executeAllRecordedActions, in order
    engineCalls,                \* temperatures passed to spa.setTargetTemperature, in order
    requests,                   \* number of requests the callers of the client have made
    scheduleId,                 \* the platform's pending 250 ms update timer, or Undefined
    \* ---- Device State (SpaClient fields) ----
    targetTempModeLow,
    targetTempModeHigh,
    tempRangeIsHigh,
    tempChangeMode,
    targetTempOverride,
    pumpsCurrentSpeed,          \* a sequence: the source's index i is i+1 here
    pumpsOverrideSpeed,
    isFilterMode,
    lightIsOn,
    lightStatus,
    currentTemp,
    flow,
    lastIncompleteChunk,        \* the cached start of a message; << >> when undefined
    \* ---- Command Engine: the setTargetTemperature calls in flight ----
    calls,
    pumpCalls,                  \* the setPumpSpeed calls and their local variables
    \* ---- Wire ----
    sendCalls,                  \* the sendMessageToSpa calls (type, payload) of the last step
    written,                    \* the packets the last step gave to socket.write
    \* ---- the spa itself (environment) ----
    dev

vars == << socket, liveSockets, isCurrentlyConnectedToSpa, reconnecting,
           reconnectTimers, faultTimeouts, faultCheckIntervalId, orphanIntervals,
           stateUpdateCheckIntervalId, stateUpdateCheckRemaining,
           receivedStateUpdate, lastStateBytes, lastColorStateBytes, lastFaultBytes,
           errorLog, repeatErrors, deviceUp, hostShutdown,
           accurateConfigReadFromSpa,
           recordedActions, replayed, engineCalls, requests, scheduleId,
           targetTempModeLow, targetTempModeHigh, tempRangeIsHigh, tempChangeMode,
           targetTempOverride, pumpsCurrentSpeed, pumpsOverrideSpeed, isFilterMode,
           lightIsOn, lightStatus, currentTemp, flow, lastIncompleteChunk, calls, pumpCalls, sendCalls, written, dev >>

sessionVars == << socket, liveSockets, isCurrentlyConnectedToSpa, reconnecting,
                  reconnectTimers, faultTimeouts, faultCheckIntervalId, orphanIntervals,
                  stateUpdateCheckIntervalId, stateUpdateCheckRemaining,
                  receivedStateUpdate, lastStateBytes, lastColorStateBytes, lastFaultBytes,
                  errorLog, repeatErrors, deviceUp, hostShutdown,
                  accurateConfigReadFromSpa >>

platformVars == << recordedActions, replayed, engineCalls, requests >>

deviceStateVars == << targetTempModeLow, targetTempModeHigh, tempRangeIsHigh, tempChangeMode >>

pumpVars == << pumpsCurrentSpeed, pumpsOverrideSpeed, isFilterMode, lightIsOn, lightStatus,
              pumpCalls >>

frameVars == << currentTemp, flow, lastIncompleteChunk >>

\* a step that calls neither sendMessageToSpa nor socket.write
NoSend == sendCalls' = << >> /\ written' = << >>

(***************************************************************************)
(* Bounds of the model                                                     *)
(***************************************************************************)

\* HomeKit set requests handled in one run
MaxRequests == 2

\* the longest frame the spa sends, in bytes
MaxFrameLen == 40

\* chunks the spa sends in one run of the inbound stream
MaxChunks == 3

\* most bytes the cached chunk and the chunk that arrives hold together
MaxPending == 100

\* further 'error' events a failed socket emits after its first
MaxRepeatErrors == 2

\* orphaned fault-check intervals counted (the count saturates here)
MaxOrphans == 1

\* setTargetTemperature calls started in one run of the engine specifications
MaxCalls == 1

\* sendMessageToSpa calls in one run of SendSpec
MaxSends == 2

\* most setTargetTemperature calls that overlap
MaxOverlap == 2

\* setPumpSpeed and setLightState calls in one run
MaxPumpCalls == 2

\* JavaScript's undefined in a field of type number (every number the fields
\* hold is a byte or a Fahrenheit temperature, so never negative)
Undefined == -1

FLOW_GOOD == "Good"

FLOW_LOW == "Low"

FLOW_FAILED == "Failed"

Min(a, b) == IF a < b THEN a ELSE b

Max(a, b) == IF a > b THEN a ELSE b

(***************************************************************************)
(* Bytes                                                                   *)
(***************************************************************************)

\* a[i] of a Uint8Array used as a number in a bit operation: an index
\* outside the array reads undefined, which the bit operators take as 0
At(a, i) == IF i >= 0 /\ i < Len(a) THEN a[i + 1] ELSE 0

\* a[i] = v on a Uint8Array: a write outside the array is ignored
SetAt(a, i, v) == IF i >= 0 /\ i < Len(a) THEN [a EXCEPT ![i + 1] = v % 256] ELSE a

\* a.slice(from, to) for 0 <= from
Slice(a, from, to) == SubSeq(a, from + 1, Min(to, Len(a)))

\* a.slice(from)
SliceFrom(a, from) == SubSeq(a, from + 1, Len(a))

\* concat(a, b)
concat(a, b) == a \o b

RECURSIVE XorBits(_, _, _)
XorBits(a, b, n) ==
    IF n = 0 THEN 0
    ELSE (((a % 2) + (b % 2)) % 2) + 2 * XorBits(a \div 2, b \div 2, n - 1)

\* a ^ b on bytes
Xor(a, b) == XorBits(a, b, 8)

\* mod(n, m): the source's true modulo
mod(n, m) == ((n % m) + m) % m

(***************************************************************************)
(* compute_checksum_encrypted: bit-serial CRC, seed 0xb5, feedback 0x07    *)
(***************************************************************************)

\* one pass of the inner loop body for data bit d
CrcShift(crc, d) ==
    LET bit     == (crc \div 128) % 2
        shifted == ((crc * 2) % 256) + d      \* low bit of (crc << 1) is 0, so | is +
    IN  IF bit = 1 THEN Xor(shifted, 7) ELSE shifted

RECURSIVE CrcByte(_, _, _)
\* bits i..7 of one data byte, most significant first
\* (a value computed once and used again is bound through a singleton set)
CrcByte(crc, byte, i) ==
    IF i = 8 THEN crc
    ELSE CHOOSE r \in { CrcByte(next, byte, i + 1) :
                            next \in { CrcShift(crc, (byte \div (2 ^ (7 - i))) % 2) } } : TRUE

RECURSIVE CrcData(_, _, _, _)
CrcData(crc, data, cur, length) ==
    IF cur >= length THEN crc
    ELSE CHOOSE r \in { CrcData(next, data, cur + 1, length) :
                            next \in { CrcByte(crc, At(data, cur), 0) % 256 } } : TRUE  \* crc &= 0xff

\* the bit-serial checksum started from 0x02
compute_checksum_encrypted_seed02(data, length) ==
    Xor(CrcByte(CrcData(2, data, 0, length), 0, 0), 2)

compute_checksum_encrypted(data, length) ==
    \* the data loop, then the trailing loop: eight shifts with no input bit
    CHOOSE r \in { Xor(CrcByte(afterData, 0, 0), 2) :
                       afterData \in { CrcData(181, data, 0, length) } } : TRUE

(***************************************************************************)
(* compute_checksum: crc.crc8 of the package "crc" (CRC-8, polynomial      *)
(* 0x07, most significant bit first) from the previous value 0x02          *)
(***************************************************************************)

RECURSIVE Crc8Bits(_, _)
\* the table entry of the package for the byte c: n shifts, each followed by
\* the polynomial when a one leaves the byte
Crc8Bits(c, n) ==
    IF n = 0 THEN c
    ELSE CHOOSE r \in { Crc8Bits(next, n - 1) :
                            next \in { IF c >= 128 THEN Xor((c * 2) % 256, 7)
                                                   ELSE c * 2 } } : TRUE

RECURSIVE crc8(_, _, _)
\* crc = TABLE[(crc ^ byte) & 0xff] for the bytes of buf from index cur on
crc8(buf, previous, cur) ==
    IF cur >= Len(buf) THEN previous
    ELSE CHOOSE r \in { crc8(buf, next, cur + 1) :
                            next \in { Crc8Bits(Xor(previous, At(buf, cur)), 8) } } : TRUE

\* a checksum of seven bits
compute_checksum_sevenBits(length, bytes) == Xor(crc8(concat(length, bytes), 2, 0), 2) % 128

compute_checksum(length, bytes) == Xor(crc8(concat(length, bytes), 2, 0), 2)

(***************************************************************************)
(* decrypt: the XOR cipher, also used to encrypt                           *)
(***************************************************************************)

RECURSIVE DecryptLoop(_, _, _, _, _)
DecryptLoop(packet, i, packet_length, key1, key2) ==
    IF i >= packet_length THEN packet
    ELSE CHOOSE r \in { DecryptLoop(st[1], i + 1, packet_length, key1, st[2]) :
                            st \in { LET k2 == mod(key2 - 1, 64)
                                     IN  << SetAt(packet, i, Xor(Xor(At(packet, i), key1), k2)),
                                            k2 >> } } : TRUE

\* decrypt leaving the key byte in the packet
DecryptTail_keyKept(looped, packet_length) ==
    SetAt(looped, Len(looped) - 2,
          compute_checksum_encrypted(SliceFrom(looped, 1), packet_length - 1))

\* the last two steps of decrypt: packet[5] = 0 and the checksum
DecryptTail(looped, packet_length) ==
    CHOOSE r \in { SetAt(zeroed, Len(zeroed) - 2,
                         compute_checksum_encrypted(SliceFrom(zeroed, 1), packet_length - 1)) :
                       zeroed \in { SetAt(looped, 5, 0) } } : TRUE

decrypt(packet) ==
    IF Len(packet) < 7 THEN packet
    ELSE LET packet_type == At(packet, 4)
             key1 == IF packet_type = 196 THEN Xor(At(packet, 5), 25)       \* 0xc4, 0x19
                     ELSE IF packet_type = 202 THEN Xor(At(packet, 5), 89)  \* 0xca, 0x59
                     ELSE Xor(At(packet, 5), 223)                           \* 0xcc, 0xdf
             packet_length == At(packet, 1)
             key2 == packet_length - 5 - 2
         IN  IF packet_type \notin {196, 202, 204} THEN packet
             ELSE CHOOSE r \in { DecryptTail(DecryptLoop(packet, 6, packet_length, k1, key2),
                                             packet_length) : k1 \in { key1 } } : TRUE

(***************************************************************************)
(* sendMessageToSpa                                                        *)
(***************************************************************************)

\* message types (three bytes each)
PrimaryRequest == << 10, 191, 34 >>          \* 0x0a, 0xbf, 0x22

SetTargetTempRequest == << 10, 191, 26 >>    \* 0x0a, 0xbf, 0x1a

SetPumpRequest == << 10, 191, 23 >>          \* 0x0a, 0xbf, 0x17

SetLightRequest == << 10, 191, 17 >>         \* 0x0a, 0xbf, 0x11

ConfigRequest == << 10, 191, 4 >>            \* 0x0a, 0xbf, 0x04

GetFaultsMessageContents == << 32, 255, 0 >> \* 0x20, 0xff, 0x00

ControlTypesMessageContents == << 0, 0, 1 >>

ControlPanelRequest == << << 1, 0, 0 >>, << 2, 0, 0 >>, << 4, 0, 0 >>, << 8, 0, 0 >> >>

\* the keys of etypes: 0x11, 0x17, 0x1a, 0x1b, 0x20 (all map to 0xcc)
etypes == { 17, 23, 26, 27, 32 }

\* the unencrypted message built first: 7e, length, type, payload, checksum, 7e
PlainMessage(type, payload) ==
    LET message_length == Len(type) + Len(payload) + 2
        blank          == << 126, message_length % 256 >> \o concat(type, payload) \o << 0, 126 >>
    IN  SetAt(blank, Len(blank) - 2,
              compute_checksum_encrypted(SliceFrom(blank, 1), message_length - 1))

\* the message retyped without the key byte
Widened_noKeyByte(message) == SetAt(message, 4, 204)

\* message[4] = etypes[packet_type], a zero byte inserted at index 5, the length raised
Widened(message) ==
    LET retyped  == SetAt(message, 4, 204)
        inserted == concat(concat(Slice(retyped, 0, 5), << 0 >>), SliceFrom(retyped, 5))
    IN  SetAt(inserted, 1, At(inserted, 1) + 1)

\* the checksum written over the encrypted packet
Resummed(encrypted) ==
    SetAt(encrypted, Len(encrypted) - 2,
          compute_checksum_encrypted(SliceFrom(encrypted, 1), At(encrypted, 1) - 1))

\* the packets sendMessageToSpa hands to socket.write: << >> when it returns
\* before the write, << packet >> otherwise
PacketsToWrite(type, payload) ==
    CHOOSE r \in { IF At(message, 4) \notin etypes THEN << >>
                   ELSE CHOOSE p \in { << Resummed(encrypted) >> :
                                           encrypted \in { decrypt(Widened(message)) } } : TRUE :
                       message \in { PlainMessage(type, payload) } } : TRUE

\* the button messages: set-temperature up and down (setTargetTemperature),
\* lights 1 and 2 (setLightState), pumps 2 and 3 (setPumpSpeed)
ButtonPresses ==
    { << SetTargetTempRequest, << 1 >> >>, << SetTargetTempRequest, << 2 >> >>,
      << SetLightRequest, << 18 >> >>, << SetLightRequest, << 19 >> >>,
      << SetPumpRequest, << 4 >> >>, << SetPumpRequest, << 5 >> >> }

\* the messages without an encrypted form: the capability, fault-log, config
\* and panel-info requests
PlainRequests ==
    { << PrimaryRequest, ControlTypesMessageContents >>,
      << PrimaryRequest, GetFaultsMessageContents >>,
      << ConfigRequest, << >> >> }
    \cup { << PrimaryRequest, ControlPanelRequest[n] >> : n \in DOMAIN ControlPanelRequest }

\* PacketsToWrite of the messages the callers send, computed once
PacketTable ==
    [ m \in ButtonPresses \cup PlainRequests |-> PacketsToWrite(m[1], m[2]) ]

Packets(type, payload) ==
    IF << type, payload >> \in DOMAIN PacketTable
    THEN PacketTable[<< type, payload >>]
    ELSE PacketsToWrite(type, payload)

\* this.socket?.write(packet): nothing is written without a socket
SocketWrite(sock, pkts) == IF sock = "none" THEN << >> ELSE pkts

(***************************************************************************)
(* The state the accessory handlers and the command engine write, as one   *)
(* record, so that a handler that calls another is an operator on it. The  *)
(* two logs of the wire start empty in every handler.                      *)
(***************************************************************************)

CurM ==
    [ recordedActions    |-> recordedActions,
      replayed           |-> replayed,
      engineCalls        |-> engineCalls,
      targetTempOverride |-> targetTempOverride,
      calls              |-> calls,
      sendCalls          |-> << >>,
      written            |-> << >> ]

Commit(M) ==
    /\ recordedActions' = M.recordedActions
    /\ replayed' = M.replayed
    /\ engineCalls' = M.engineCalls
    /\ targetTempOverride' = M.targetTempOverride
    /\ calls' = M.calls
    /\ sendCalls' = M.sendCalls
    /\ written' = M.written

sendMessageToSpa(M, sock, type, payload) ==
    CHOOSE r \in { [M EXCEPT !.sendCalls = Append(@, << type, payload >>),
                             !.written = @ \o w] :
                       w \in { SocketWrite(sock, Packets(type, payload)) } } : TRUE

sendControlTypesRequest(M, sock) ==
    sendMessageToSpa(M, sock, PrimaryRequest, ControlTypesMessageContents)

send_request_for_faults_log(M, sock) ==
    sendMessageToSpa(M, sock, PrimaryRequest, GetFaultsMessageContents)

send_config_request(M, sock) ==
    sendMessageToSpa(M, sock, ConfigRequest, << >>)

\* id counts from 0, as in the source
sendControlPanelRequest(M, sock, id) ==
    sendMessageToSpa(M, sock, PrimaryRequest, ControlPanelRequest[id + 1])

(***************************************************************************)
(* Command Engine: setTargetTemperature                                    *)
(***************************************************************************)

\* the loop bound of setTargetTemperature
RetryBudget == 60

\* this.targetTempModeLow ?? this.targetTempModeHigh ?? 0
LowOrHigh(low, high) ==
    IF low # Undefined THEN low ELSE IF high # Undefined THEN high ELSE 0

\* the setpoint getTargetTemp reports when no override is set
ActiveSetTemp(low, high, rangeHigh) == IF rangeHigh THEN high ELSE low

getTargetTemp(override, low, high, rangeHigh) ==
    IF override # Undefined THEN override ELSE ActiveSetTemp(low, high, rangeHigh)

\* the button a required change selects: 1 = Temp Up, 2 = Temp Down, 0 = none
ButtonFor(reqd_change) ==
    IF reqd_change >= 1 THEN 1 ELSE IF reqd_change <= -1 THEN 2 ELSE 0

\* the loop body up to the await, for call k
IterationHead(M, k, sock, low, high, rangeHigh) ==
    LET c   == M.calls[k]
        cur == LowOrHigh(low, high)
        btn == ButtonFor(c.temp - cur)
    IN  IF ~c.settemp_changed THEN M
        ELSE IF btn = 0
        THEN [M EXCEPT !.targetTempOverride = Undefined,
                       !.calls[k].previousSetTemp = cur,
                       !.calls[k].pc = "done"]
        ELSE CHOOSE r \in { [sentM EXCEPT !.calls[k].previousSetTemp = cur] :
                 sentM \in { sendMessageToSpa(M, sock, SetTargetTempRequest, << btn >>) } } : TRUE

\* setTargetTemperature(temp) up to its first await (or its return); the
\* call's local variables become a new element of calls
setTargetTemperature(M, temp, sock, low, high, rangeHigh) ==
    LET c == [ temp            |-> temp,
               i               |-> 0,
               settemp_changed |-> TRUE,
               previousSetTemp |-> LowOrHigh(low, high),
               original_temp   |-> LowOrHigh(low, high),
               pc              |-> "await" ]
    IN  CHOOSE r \in { IterationHead(M1, Len(M1.calls), sock, low, high, rangeHigh) :
             M1 \in { [M EXCEPT !.targetTempOverride = temp, !.calls = Append(M.calls, c)] } } : TRUE

\* line 909: (previousSetTemp != targetTempModeLow ?? targetTempModeHigh) || (...);
\* != binds tighter than ??, and a comparison is never null, so the right
\* operand of ?? is never used
SetTempChanged(c, low, tcm) ==
    \/ c.previousSetTemp # low
    \/ (c.previousSetTemp = c.original_temp /\ tcm)

\* mutant: the code after the loop leaves the override set
AfterWait_overrideKept(M, k, sock, low, high, rangeHigh, tcm) ==
    IF M.calls[k].i + 1 < RetryBudget
    THEN IterationHead([M EXCEPT !.calls[k].settemp_changed = SetTempChanged(M.calls[k], low, tcm),
                                 !.calls[k].i = M.calls[k].i + 1],
                       k, sock, low, high, rangeHigh)
    ELSE [M EXCEPT !.calls[k].settemp_changed = SetTempChanged(M.calls[k], low, tcm),
                   !.calls[k].i = M.calls[k].i + 1,
                   !.calls[k].pc = "done"]

\* the continuation of call k after its one-second wait: the end of one loop
\* pass, i++, and the next pass up to its await (or the code after the loop)
AfterWait(M, k, sock, low, high, rangeHigh, tcm) ==
    CHOOSE r \in { IF M1.calls[k].i < RetryBudget
                   THEN IterationHead(M1, k, sock, low, high, rangeHigh)
                   ELSE [M1 EXCEPT !.targetTempOverride = Undefined, !.calls[k].pc = "done"] :
             M1 \in { [M EXCEPT !.calls[k].settemp_changed = SetTempChanged(M.calls[k], low, tcm),
                                !.calls[k].i = M.calls[k].i + 1] } } : TRUE

(***************************************************************************)
(* Command Engine: setPumpSpeed, getPumpSpeed and setLightState. A pump or *)
(* light is named by its number (1, 2, ...), as the callers name it; the   *)
(* source's index is the number minus one.                                 *)
(***************************************************************************)

\* this.pumpsSpeedRange, set by the constructor and never changed
pumpsSpeedRange == << 0, 2, 1, 0, 0, 0 >>

\* the fields setPumpSpeed and setLightState write, as one record
CurP ==
    [ pumpsCurrentSpeed  |-> pumpsCurrentSpeed,
      pumpsOverrideSpeed |-> pumpsOverrideSpeed,
      pumpCalls          |-> pumpCalls,
      errorLog           |-> errorLog,
      sendCalls          |-> << >>,
      written            |-> << >> ]

CommitP(P) ==
    /\ pumpsCurrentSpeed' = P.pumpsCurrentSpeed
    /\ pumpsOverrideSpeed' = P.pumpsOverrideSpeed
    /\ pumpCalls' = P.pumpCalls
    /\ errorLog' = P.errorLog
    /\ sendCalls' = P.sendCalls
    /\ written' = P.written

getPumpSpeed(index, cur, ovr) ==
    IF index = 0 THEN 0
    ELSE IF pumpsSpeedRange[index] = 0 THEN 0
    ELSE IF ovr[index] = -1 THEN cur[index] ELSE ovr[index]

\* mutant: a lower speed is reached by counting down
TimesToRun_countDown(index, desiredSpeed, cur, filterMode) ==
    IF desiredSpeed > cur THEN desiredSpeed - cur
    ELSE IF desiredSpeed < cur THEN cur - desiredSpeed
    ELSE 0

\* mutant: filter mode does not save a press
TimesToRun_noFilter(index, desiredSpeed, cur, filterMode) ==
    IF desiredSpeed > cur THEN desiredSpeed - cur
    ELSE IF desiredSpeed < cur
    THEN (pumpsSpeedRange[index] - cur) + (desiredSpeed + 1)
    ELSE 0

\* the number of button presses setPumpSpeed computes
TimesToRun(index, desiredSpeed, cur, filterMode) ==
    IF desiredSpeed > cur THEN desiredSpeed - cur
    ELSE IF desiredSpeed < cur
    THEN (pumpsSpeedRange[index] - cur) + (desiredSpeed + 1)
             - (IF filterMode /\ index = 2 THEN 1 ELSE 0)
    ELSE 0

\* one pass of the press loop of call k up to its await, or the code after
\* the loop; sent counts the commands the call has sent
PumpIteration(P, k, sock) ==
    LET c == P.pumpCalls[k]
    IN  IF c.i < c.timesToRun
        THEN IF P.pumpsCurrentSpeed[c.index] # c.desiredSpeed
             THEN CHOOSE r \in { [sentP EXCEPT !.pumpCalls[k].sent = @ + 1] :
                      sentP \in { sendMessageToSpa(P, sock, SetPumpRequest, << c.index + 2 >>) } } : TRUE
             ELSE P
        ELSE [P EXCEPT !.pumpsOverrideSpeed[c.index] = -1,
                       !.pumpsCurrentSpeed[c.index] = c.desiredSpeed,
                       !.pumpCalls[k].pc = "done"]

\* mutant: a speed above the pump's capability is not rejected
setPumpSpeed_anySpeed(P, index, desiredSpeed, sock, filterMode) ==
    IF pumpsSpeedRange[index] = 0
    THEN [P EXCEPT !.errorLog = @ \cup { "Trying to set speed of a pump which doesn't exist" }]
    ELSE [P EXCEPT !.pumpsOverrideSpeed[index] = -1,
                   !.pumpsCurrentSpeed[index] = desiredSpeed]

\* setPumpSpeed(index, desiredSpeed) up to its first await (or its return).
\* requested, c0, filter, sent, disturbed and overlapped are the books of the
\* call: the speed asked for, the pump's speed and the filter mode when it
\* started, the commands it sent, whether a status frame changed the pump's
\* speed on it, and whether another call for the same pump was in flight
\* with it
setPumpSpeed(P, index, desiredSpeed, sock, filterMode) ==
    IF pumpsSpeedRange[index] = 0
    THEN [P EXCEPT !.errorLog = @ \cup { "Trying to set speed of a pump which doesn't exist" }]
    ELSE IF desiredSpeed > pumpsSpeedRange[index]
    THEN [P EXCEPT !.errorLog = @ \cup { "Trying to set speed faster than the pump supports" }]
    ELSE LET d == IF filterMode /\ index = 2 /\ desiredSpeed = 0 THEN 1 ELSE desiredSpeed
             c == [ index        |-> index,
                    desiredSpeed |-> d,
                    timesToRun   |-> TimesToRun(index, d, P.pumpsCurrentSpeed[index], filterMode),
                    i            |-> 0,
                    pc           |-> "await",
                    requested    |-> desiredSpeed,
                    c0           |-> P.pumpsCurrentSpeed[index],
                    filter       |-> filterMode,
                    sent         |-> 0,
                    disturbed    |-> FALSE,
                    overlapped   |-> \E j \in DOMAIN P.pumpCalls :
                                        P.pumpCalls[j].pc = "await" /\ P.pumpCalls[j].index = index ]
             others == [ j \in DOMAIN P.pumpCalls |->
                           IF P.pumpCalls[j].pc = "await" /\ P.pumpCalls[j].index = index
                           THEN [P.pumpCalls[j] EXCEPT !.overlapped = TRUE]
                           ELSE P.pumpCalls[j] ]
         IN  CHOOSE r \in { PumpIteration(P1, Len(P1.pumpCalls), sock) :
                  P1 \in { [P EXCEPT !.pumpsOverrideSpeed[index] = d,
                                     !.pumpCalls = Append(others, c)] } } : TRUE

\* the continuation of call k after its one-second wait
PumpAfterWait(P, k, sock) ==
    CHOOSE r \in { PumpIteration(P1, k, sock) :
             P1 \in { [P EXCEPT !.pumpCalls[k].i = @ + 1] } } : TRUE

\* setLightState(index, value): a button press unless the light is in the
\* state asked for or does not exist. lightIsOn[index] is undefined exactly
\* past the end of the array (no element is ever assigned undefined), and
\* undefined === value is false for a boolean value
setLightState(P, index, value, sock, lights) ==
    IF index \in DOMAIN lights /\ lights[index] = value THEN P
    ELSE IF index \notin DOMAIN lights
    THEN [P EXCEPT !.errorLog = @ \cup { "Trying to set state of a light which doesn't exist" }]
    ELSE sendMessageToSpa(P, sock, SetLightRequest, << 17 + index >>)

(***************************************************************************)
(* Accessory layer: ThermostatAccessory and the platform's replay queue    *)
(***************************************************************************)

\* Math.round(toFarenheit(value)) for a value given in half degrees Celsius
RoundedFahrenheit(halfC) == (9 * halfC + 320 + 5) \div 10

recordAction(M, func) == [M EXCEPT !.recordedActions = Append(M.recordedActions, func)]

\* mutant: the handler does not look at the connection state
AccessorySetTargetTemperature_ungated(M, value, connected, sock, low, high, rangeHigh) ==
    IF value < 20 \/ value > 80
    THEN M
    ELSE setTargetTemperature([M EXCEPT !.engineCalls = Append(M.engineCalls, RoundedFahrenheit(value))],
                              RoundedFahrenheit(value), sock, low, high, rangeHigh)

\* ThermostatAccessory.setTargetTemperature(value, callback), value in half degrees
AccessorySetTargetTemperature(M, value, connected, sock, low, high, rangeHigh) ==
    IF ~connected
    THEN recordAction(M, [fn |-> "setTargetTemperature", value |-> value])
    ELSE IF value < 20 \/ value > 80      \* temp < 10, temp > 40.0
    THEN M
    ELSE LET temp == RoundedFahrenheit(value)
             M1   == [M EXCEPT !.engineCalls = Append(M.engineCalls, temp)]
         IN  setTargetTemperature(M1, temp, sock, low, high, rangeHigh)

\* ThermostatAccessory.setTargetHeatingState(value, callback)
AccessorySetTargetHeatingState(M, value, connected) ==
    IF ~connected
    THEN recordAction(M, [fn |-> "setTargetHeatingState", value |-> value])
    ELSE M

\* func(loggingCallback) for a recorded function
Invoke(M, func, connected, sock, low, high, rangeHigh) ==
    IF func.fn = "setTargetTemperature"
    THEN AccessorySetTargetTemperature(M, func.value, connected, sock, low, high, rangeHigh)
    ELSE AccessorySetTargetHeatingState(M, func.value, connected)

\* mutant: the queue is drained from its newest end
Shift_newestFirst(q) == << q[Len(q)], SubSeq(q, 1, Len(q) - 1) >>

\* recordedActions.shift(): the function removed and the queue left
Shift(q) == << Head(q), Tail(q) >>

RECURSIVE executeAllRecordedActions(_, _, _, _, _, _)
executeAllRecordedActions(M, connected, sock, low, high, rangeHigh) ==
    IF ~(connected /\ Len(M.recordedActions) > 0) THEN M
    ELSE LET sh == Shift(M.recordedActions)
             M1 == [M EXCEPT !.recordedActions = sh[2],
                             !.replayed = Append(M.replayed, sh[1])]
         IN  CHOOSE r \in { executeAllRecordedActions(M2, connected, sock, low, high, rangeHigh) :
                                M2 \in { Invoke(M1, sh[1], connected, sock, low, high, rangeHigh) } } : TRUE

(***************************************************************************)
(* Message Interpreter: the fields of a status frame the engine reads      *)
(***************************************************************************)

\* length of the status packets used: byte 26 is the last one read
StatusPacketLen == 40

\* a decrypted status packet with the given bytes 10 and 21, zero elsewhere
StatusBytes(b10, b21) ==
    [ n \in 1..StatusPacketLen |->
        IF n = 11 THEN b10 ELSE IF n = 22 THEN b21 ELSE 0 ]

\* the assignments of readStateFromBytes to the fields modelled here
readStateFromBytes(bytes) ==
    LET moreFlags == At(bytes, 10)
        jet1      == (At(bytes, 10) \div 8) % 4                \* (bytes[10] >> 3) & 3
    IN  [ currentTemp     |-> IF At(bytes, 15) = 255 THEN Undefined ELSE At(bytes, 15),
          tempRangeIsHigh |-> (moreFlags \div 4) % 2 # 0,      \* (moreFlags & 4) !== 0
          tempChangeMode  |-> (At(bytes, 10) \div 32) % 2 = 1, \* ((bytes[10] >> 5) & 1) == 1
          setTemp         |-> At(bytes, 21),
          isFilterMode    |-> At(bytes, 26) \div 128 = 1,      \* (bytes[26] >> 7) == 1
          pump1           |-> IF jet1 = 1 THEN 0 ELSE IF jet1 = 0 THEN 1 ELSE 2,
          pump2           |-> (At(bytes, 8) \div 4) % 4 ]      \* (bytes[8] & 0x0c) >> 2

\* pumpsCurrentSpeed after readStateFromBytes: elements 1 and 2 of the source
PumpsRead(cur, bytes) ==
    [cur EXCEPT ![2] = readStateFromBytes(bytes).pump1,
                ![3] = readStateFromBytes(bytes).pump2]

\* readStateFromBytes comparing every byte with the frame kept before
StateBytesChanged_everyByte(oldBytes, bytes) ==
    oldBytes # bytes

\* the tail of readStateFromBytes: its result, given the frame kept before
StateBytesChanged(oldBytes, bytes) ==
    \/ Len(oldBytes) # Len(bytes)
    \/ \E i \in { 8, 10, 15, 21 } : i < Len(oldBytes) /\ At(oldBytes, i) # At(bytes, i)

LIGHTOFF == 0
LIGHTFAST == 1
LIGHTSLOW == 2
LIGHTFREEZE == 3
LIGHTBLUE == 4
LIGHTVIOLET == 5
LIGHTRED == 6
LIGHTAMBER == 7
LIGHTGREEN == 8
LIGHTAQUA == 9
LIGHTWHITE == 10

\* a decrypted light-status packet of 32 bytes with the given bytes 13 and
\* 24 (byte 24 is the last one read)
LightBytes(b13, b24) ==
    [ n \in 1..32 |->
        IF n = 14 THEN b13 ELSE IF n = 25 THEN b24 ELSE 0 ]

\* the lightStatus readLightStateFromBytes assigns; the field keeps its
\* value when no branch matches
LightStatusRead(old, bytes) ==
    LET b13 == At(bytes, 13)
        b24 == At(bytes, 24)
    IN  IF b13 = 64 THEN LIGHTOFF                           \* 0x40
        ELSE IF b13 = 192 /\ b24 = 66 THEN LIGHTFAST       \* 0xc0, 0x42
        ELSE IF b13 = 192 /\ b24 = 68 THEN LIGHTSLOW       \* 0xc0, 0x44
        ELSE IF b13 = 191 THEN LIGHTFREEZE                  \* 0xbf
        ELSE IF b13 = 66 THEN LIGHTBLUE                     \* 0x42
        ELSE IF b13 = 71 THEN LIGHTVIOLET                   \* 0x47
        ELSE IF b13 = 70 THEN LIGHTRED                      \* 0x46
        ELSE IF b13 = 72 THEN LIGHTAMBER                    \* 0x48
        ELSE IF b13 = 67 THEN LIGHTGREEN                    \* 0x43
        ELSE IF b13 = 73 THEN LIGHTAQUA                     \* 0x49
        ELSE IF b13 = 65 THEN LIGHTWHITE                    \* 0x41
        ELSE old

\* the tail of readLightStateFromBytes: its result, given the frame kept before
ColorBytesChanged(oldBytes, bytes) ==
    \/ Len(oldBytes) # Len(bytes)
    \/ \E i \in { 13, 24 } : i < Len(oldBytes) /\ At(oldBytes, i) # At(bytes, i)

\* platform.updateStateOfAccessories: the pending timer is cleared and a new
\* one is armed; a new timer's id differs from the one just cleared
updateStateOfAccessories(id) == IF id = 1 THEN 2 ELSE 1

\* the platform's update timer after a frame that was or was not reported as
\* a change (changesCallback is updateStateOfAccessories)
AfterFrame(id, somethingChanged) ==
    IF somethingChanged THEN updateStateOfAccessories(id) ELSE id

(***************************************************************************)
(* The framer and the Message Interpreter: readAndActOnSocketContents and  *)
(* readAndActOnMessage, as operators on one record of the fields they      *)
(* write. The record also carries the result of the reader last called,    *)
(* whether a forced update is due (spaLastUpdated, lightLastUpdated are a  *)
(* minute old), and the books of the call: the messages passed to the      *)
(* interpreter, what each reported, and the callbacks invoked.             *)
(***************************************************************************)

\* reply types (three bytes each)
StateReply == << 255, 175, 196 >>            \* 0xff, 0xaf, 0xc4

LightStateReply == << 255, 175, 202 >>       \* 0xff, 0xaf, 0xca

GetFaultsReply == << 10, 191, 40 >>          \* 0x0a, 0xbf, 0x28

ControlTypesReply == << 10, 191, 30 >>       \* 0x0a, 0xbf, 0x1e

\* a frame as the spa puts it on the wire: 7e, length, type, payload,
\* checksum, 7e, enciphered when the type is an enciphered one (the payload
\* of such a type starts with the key byte, here 0)
WireFrame(type, payload) == decrypt(PlainMessage(type, payload))

\* a status frame of StatusPacketLen bytes with the given bytes 15
\* (temperature) and 21 (set temperature); the payload starts at byte 5
StatusFrameOf(b15, b21) ==
    WireFrame(StateReply, [ n \in 1..(StatusPacketLen - 7) |->
                              IF n = 11 THEN b15 ELSE IF n = 17 THEN b21 ELSE 0 ])

\* a light-status frame of 32 bytes with the given byte 13; the payload
\* starts at byte 5
LightFrameOf(b13) ==
    WireFrame(LightStateReply, [ n \in 1..25 |-> IF n = 9 THEN b13 ELSE 0 ])

\* a fault-log frame: code is byte 2 of the contents, daysAgo byte 3
FaultFrameOf(code, daysAgo) ==
    WireFrame(GetFaultsReply, << 0, 0, code, daysAgo, 0, 0 >>)

\* the temperature bytes of the status frames the spa sends
TempBytes == { 255, 70 }

\* the status frame of each temperature byte, with set temperature 100
StatusFrames == [ v \in TempBytes |-> StatusFrameOf(v, 100) ]

\* the frames the spa sends in pieces or damaged: temperature unknown and
\* 70, light off, the capability reply
StreamFrames ==
    { StatusFrames[255], StatusFrames[70], LightFrameOf(64),
      WireFrame(ControlTypesReply, << >>) }

\* the frames the spa sends in two chunks, split at every position
SplitFrames == { StatusFrames[70], WireFrame(ControlTypesReply, << >>) }

\* the fault codes the spa reports: the five alerted ones and one other
FaultCodes == { 16, 28, 17, 27, 30, 19 }

\* the frames the spa sends in reply to requests: fault-log frames of today
\* and two of yesterday, the capability reply, a reply that is only logged
ReplyFrames ==
    { FaultFrameOf(code, 0) : code \in FaultCodes }
    \cup { FaultFrameOf(16, 1), FaultFrameOf(17, 1) }
    \cup { WireFrame(ControlTypesReply, << >>), WireFrame(<< 10, 191, 148 >>, << 1 >>) }

\* a frame damaged on the way: its checksum byte, a payload byte, its first
\* or its last byte
Damaged(f) ==
    { SetAt(f, Len(f) - 2, At(f, Len(f) - 2) + 1),
      SetAt(f, 5, At(f, 5) + 1),
      SetAt(f, 0, 125),
      SetAt(f, Len(f) - 1, 0) }

\* the payload of a status frame: temperature 70, set temperature 100,
\* and one more byte of the frame set to a value
StatusPayload(index, value) ==
    [ n \in 1..(StatusPacketLen - 7) |->
        IF n = index - 4 THEN value ELSE IF n = 11 THEN 70 ELSE IF n = 17 THEN 100 ELSE 0 ]

\* the bytes of a status frame that vary: the monitored 8, 10, 15, 21, and
\* 9 and 30, which are not monitored
VariedBytes == { 8, 10, 15, 21, 9, 30 }

\* the status frames that differ from one another in two bytes
StatusVariants ==
    { WireFrame(StateReply, StatusPayload(index, 8)) : index \in VariedBytes }

\* frames of the types the client logs or does not know: the config,
\* preferences and known-ignorable replies, the four panel replies, a type
\* nobody knows, and a type that ends like a status frame's
OtherFrames ==
    { WireFrame(<< 10, 191, 148 >>, << 1, 2, 3, 0, 21, 39, 1, 2, 3 >>),
      WireFrame(<< 255, 175, 38 >>, << 0, 1 >>),
      WireFrame(<< 255, 175, 50 >>, << 7 >>),
      WireFrame(<< 10, 191, 35 >>, << 20, 0, 2, 0, 136, 30, 1, 0 >>),
      WireFrame(<< 10, 191, 36 >>, [ n \in 1..21 |-> 64 + n ]),
      WireFrame(<< 10, 191, 37 >>, << 9, 3 >>),
      WireFrame(<< 10, 191, 38 >>, << 0, 1, 2 >>),
      WireFrame(<< 10, 191, 153 >>, << 70, 100 >>),
      WireFrame(<< 10, 191, 196 >>, StatusPayload(15, 99)) }

\* the checksums and the plain forms of the messages the spa sends, computed once
MessageTable ==
    [ m \in StreamFrames \cup ReplyFrames \cup StatusVariants \cup OtherFrames
             \cup UNION { Damaged(f) : f \in StreamFrames } |->
        [ checksum  |-> compute_checksum(<< At(m, 1) >>, Slice(m, 2, At(m, 1))),
          decrypted |-> decrypt(m) ] ]

\* compute_checksum of a whole message
Checksum(m) ==
    IF m \in DOMAIN MessageTable THEN MessageTable[m].checksum
    ELSE compute_checksum(<< At(m, 1) >>, Slice(m, 2, At(m, 1)))

\* decrypt of a whole message
Decrypted(m) ==
    IF m \in DOMAIN MessageTable THEN MessageTable[m].decrypted ELSE decrypt(m)

CurF ==
    [ receivedStateUpdate       |-> receivedStateUpdate,
      currentTemp               |-> currentTemp,
      tempRangeIsHigh           |-> tempRangeIsHigh,
      tempChangeMode            |-> tempChangeMode,
      targetTempModeHigh        |-> targetTempModeHigh,
      targetTempModeLow         |-> targetTempModeLow,
      isFilterMode              |-> isFilterMode,
      pumpsCurrentSpeed         |-> pumpsCurrentSpeed,
      lightIsOn                 |-> lightIsOn,
      lightStatus               |-> lightStatus,
      flow                      |-> flow,
      accurateConfigReadFromSpa |-> accurateConfigReadFromSpa,
      lastStateBytes            |-> lastStateBytes,
      lastColorStateBytes       |-> lastColorStateBytes,
      lastFaultBytes            |-> lastFaultBytes,
      lastIncompleteChunk       |-> lastIncompleteChunk,
      scheduleId                |-> scheduleId,
      errorLog                  |-> errorLog,
      result                    |-> FALSE,
      spaDue                    |-> FALSE,
      lightDue                  |-> FALSE,
      decoded                   |-> << >>,
      reports                   |-> << >>,
      changes                   |-> 0,
      configKnown               |-> 0,
      warned                    |-> FALSE,
      passes                    |-> 0 ]

CommitF(F) ==
    /\ receivedStateUpdate' = F.receivedStateUpdate
    /\ currentTemp' = F.currentTemp
    /\ tempRangeIsHigh' = F.tempRangeIsHigh
    /\ tempChangeMode' = F.tempChangeMode
    /\ targetTempModeHigh' = F.targetTempModeHigh
    /\ targetTempModeLow' = F.targetTempModeLow
    /\ isFilterMode' = F.isFilterMode
    /\ pumpsCurrentSpeed' = F.pumpsCurrentSpeed
    /\ lightIsOn' = F.lightIsOn
    /\ lightStatus' = F.lightStatus
    /\ flow' = F.flow
    /\ accurateConfigReadFromSpa' = F.accurateConfigReadFromSpa
    /\ lastStateBytes' = F.lastStateBytes
    /\ lastColorStateBytes' = F.lastColorStateBytes
    /\ lastFaultBytes' = F.lastFaultBytes
    /\ lastIncompleteChunk' = F.lastIncompleteChunk
    /\ scheduleId' = F.scheduleId
    /\ errorLog' = F.errorLog

\* a capability reply that runs the discovery every time
interpretControlTypesReply_everyTime(F) ==
    [F EXCEPT !.lightIsOn = [@ EXCEPT ![1] = TRUE],
              !.accurateConfigReadFromSpa = TRUE,
              !.configKnown = @ + 1,
              !.result = TRUE]

\* interpretControlTypesReply; configKnown counts spaConfigurationKnownCallback
interpretControlTypesReply(F) ==
    IF F.accurateConfigReadFromSpa
    THEN [F EXCEPT !.result = FALSE]
    ELSE [F EXCEPT !.lightIsOn = [@ EXCEPT ![1] = TRUE],
                   !.accurateConfigReadFromSpa = TRUE,
                   !.configKnown = @ + 1,
                   !.result = TRUE]

\* a reader of the status frame that takes the temperature byte as it is
StateRead_rawTemp(F, bytes) ==
    LET r == readStateFromBytes(bytes)
    IN  [F EXCEPT !.receivedStateUpdate = TRUE,
                  !.currentTemp = At(bytes, 15),
                  !.tempRangeIsHigh = r.tempRangeIsHigh,
                  !.tempChangeMode = r.tempChangeMode,
                  !.targetTempModeHigh = IF r.tempRangeIsHigh THEN r.setTemp ELSE @,
                  !.targetTempModeLow = IF r.tempRangeIsHigh THEN @ ELSE r.setTemp,
                  !.isFilterMode = r.isFilterMode,
                  !.pumpsCurrentSpeed = PumpsRead(@, bytes),
                  !.lastStateBytes = bytes,
                  !.result = StateBytesChanged(F.lastStateBytes, bytes)]

\* readStateFromBytes on the record
StateRead(F, bytes) ==
    LET r == readStateFromBytes(bytes)
    IN  [F EXCEPT !.receivedStateUpdate = TRUE,
                  !.currentTemp = r.currentTemp,
                  !.tempRangeIsHigh = r.tempRangeIsHigh,
                  !.tempChangeMode = r.tempChangeMode,
                  !.targetTempModeHigh = IF r.tempRangeIsHigh THEN r.setTemp ELSE @,
                  !.targetTempModeLow = IF r.tempRangeIsHigh THEN @ ELSE r.setTemp,
                  !.isFilterMode = r.isFilterMode,
                  !.pumpsCurrentSpeed = PumpsRead(@, bytes),
                  !.lastStateBytes = bytes,
                  !.result = StateBytesChanged(F.lastStateBytes, bytes)]

\* readLightStateFromBytes on the record
readLightStateFromBytes(F, bytes) ==
    [F EXCEPT !.lightStatus = LightStatusRead(@, bytes),
              !.lightIsOn = [@ EXCEPT ![1] = LightStatusRead(F.lightStatus, bytes) # LIGHTOFF],
              !.lastColorStateBytes = bytes,
              !.result = ColorBytesChanged(F.lastColorStateBytes, bytes)]

\* a reader of the fault log that takes no account of the fault's age
readFaults_anyAge(F, bytes) ==
    LET code == At(bytes, 2)
    IN  [F EXCEPT !.flow = IF code \in { 16, 28 } THEN FLOW_LOW
                           ELSE IF code \in { 17, 27, 30 } THEN FLOW_FAILED
                           ELSE FLOW_GOOD,
                  !.lastFaultBytes = bytes,
                  !.result = code \in { 16, 28, 17, 27, 30 }]

\* readFaults
readFaults(F, bytes) ==
    LET daysAgo == At(bytes, 3)
        code    == At(bytes, 2)
    IN  [F EXCEPT !.flow = IF daysAgo > 0 THEN FLOW_GOOD
                           ELSE IF code \in { 16, 28 } THEN FLOW_LOW
                           ELSE IF code \in { 17, 27, 30 } THEN FLOW_FAILED
                           ELSE FLOW_GOOD,
                  !.lastFaultBytes = bytes,
                  !.result = daysAgo = 0 /\ code \in { 16, 28, 17, 27, 30 }]

\* the forced update of a status or light-status frame: once a minute the
\* frame is reported as a change whatever it holds
ForcedUpdate(F, due) ==
    IF due = "spa" /\ F.spaDue THEN [F EXCEPT !.result = TRUE, !.spaDue = FALSE]
    ELSE IF due = "light" /\ F.lightDue THEN [F EXCEPT !.result = TRUE, !.lightDue = FALSE]
    ELSE F

\* readAndActOnMessage; the result is in the record
\* the replies that are logged only
ConfigReply == << 10, 191, 148 >>            \* 0x0a, 0xbf, 0x94

PreferencesReply == << 255, 175, 38 >>       \* 0xff, 0xaf, 0x26

KnownUnknownReply == << 255, 175, 50 >>      \* 0xff, 0xaf, 0x32

\* the reply codes of the four panel requests: 0x0a, 0xbf, 0x23 to 0x26
ControlPanelReply == << << 10, 191, 35 >>, << 10, 191, 36 >>, << 10, 191, 37 >>, << 10, 191, 38 >> >>

\* a panel reply that reports a change
interpretControlPanelReply_reportsChange(F, id, contents) == [F EXCEPT !.result = TRUE]

\* the filter times (id 1) and the versions (id 2) are logged
interpretControlPanelReply(F, id, contents) == [F EXCEPT !.result = FALSE]

readAndActOnMessage(F, length, chunk) ==
    LET contents == Slice(chunk, 5, length)
        msgType  == Slice(chunk, 2, 5)
    IN  IF msgType = StateReply
        THEN CHOOSE r \in { ForcedUpdate([interpretControlTypesReply(F1) EXCEPT !.result = F1.result],
                                         "spa") :
                                F1 \in { StateRead(F, Decrypted(chunk)) } } : TRUE
        ELSE IF msgType = LightStateReply
        THEN ForcedUpdate(readLightStateFromBytes(F, Decrypted(chunk)), "light")
        ELSE IF msgType = GetFaultsReply THEN readFaults(F, contents)
        ELSE IF msgType = ControlTypesReply THEN interpretControlTypesReply(F)
        ELSE IF msgType \in { ConfigReply, PreferencesReply, KnownUnknownReply }
        THEN [F EXCEPT !.result = FALSE]
        ELSE IF \E id \in 1..4 : msgType = ControlPanelReply[id]
        THEN interpretControlPanelReply(F, CHOOSE id \in 1..4 : msgType = ControlPanelReply[id],
                                        contents)
        \* "Not understood a received spa message"
        ELSE [F EXCEPT !.result = FALSE]

\* a framer that calls back for every message it passes on
Interpreted_alwaysCalls(F, length, thisMsg) ==
    CHOOSE r \in { [F1 EXCEPT !.decoded = Append(@, thisMsg),
                              !.reports = Append(@, F1.result),
                              !.changes = @ + 1,
                              !.scheduleId = updateStateOfAccessories(@)] :
                       F1 \in { readAndActOnMessage(F, length, thisMsg) } } : TRUE

\* a message with a good checksum: the interpreter, then changesCallback
\* (the platform's updateStateOfAccessories) if it reported a change
Interpreted(F, length, thisMsg) ==
    CHOOSE r \in { [F1 EXCEPT !.decoded = Append(@, thisMsg),
                              !.reports = Append(@, F1.result),
                              !.changes = IF F1.result THEN @ + 1 ELSE @,
                              !.scheduleId = AfterFrame(@, F1.result)] :
                       F1 \in { readAndActOnMessage(F, length, thisMsg) } } : TRUE

\* a framer that trusts the checksum byte
Framed_noChecksum(F, chunk, msgLength) ==
    IF At(chunk, 0) = 126 /\ At(chunk, msgLength + 1) = 126
    THEN IF msgLength > 0
         THEN Interpreted(F, msgLength, Slice(chunk, 0, msgLength + 2))
         ELSE F
    ELSE [F EXCEPT !.errorLog = @ \cup { "Message with bad terminations encountered:" }]

\* the body of the framer's loop for a chunk that holds a whole message
Framed(F, chunk, msgLength) ==
    IF At(chunk, 0) = 126 /\ At(chunk, msgLength + 1) = 126       \* 0x7e
    THEN IF msgLength > 0
         THEN LET thisMsg == Slice(chunk, 0, msgLength + 2)
              IN  IF At(thisMsg, msgLength) # Checksum(thisMsg)
                  THEN [F EXCEPT !.errorLog = @ \cup { "Bad checksum" }]
                  ELSE Interpreted(F, msgLength, thisMsg)
         ELSE F
    ELSE [F EXCEPT !.errorLog = @ \cup { "Message with bad terminations encountered:" }]

RECURSIVE ParseLoop_cachesShort(_, _)
\* a loop that caches a chunk of one byte
ParseLoop_cachesShort(F, chunk) ==
    IF Len(chunk) = 0 THEN F
    ELSE IF Len(chunk) < 2 \/ At(chunk, 1) > Len(chunk) - 2
    THEN [F EXCEPT !.lastIncompleteChunk = chunk]
    ELSE CHOOSE r \in { ParseLoop_cachesShort([F1 EXCEPT !.passes = @ + 1],
                                               SliceFrom(chunk, At(chunk, 1) + 2)) :
                            F1 \in { Framed(F, chunk, At(chunk, 1)) } } : TRUE

RECURSIVE ParseLoop(_, _)
\* the while loop of readAndActOnSocketContents; passes counts the passes
\* that end with chunk = chunk.slice(msgLength + 2)
ParseLoop(F, chunk) ==
    IF Len(chunk) = 0 THEN F
    ELSE IF Len(chunk) < 2
    THEN [F EXCEPT !.errorLog = @ \cup { "Very short message received (ignored)" }]
    ELSE IF At(chunk, 1) > Len(chunk) - 2
    THEN [F EXCEPT !.lastIncompleteChunk = chunk]
    ELSE CHOOSE r \in { ParseLoop([F1 EXCEPT !.passes = @ + 1],
                                   SliceFrom(chunk, At(chunk, 1) + 2)) :
                            F1 \in { Framed(F, chunk, At(chunk, 1)) } } : TRUE

\* a framer that merges a cached chunk whatever its age
readAndActOnSocketContents_alwaysMerge(F, chunk, diff) ==
    IF F.lastIncompleteChunk # << >>
    THEN ParseLoop([F EXCEPT !.lastIncompleteChunk = << >>], concat(F.lastIncompleteChunk, chunk))
    ELSE ParseLoop(F, chunk)

\* readAndActOnSocketContents; diff is the age in ms of the cached chunk
readAndActOnSocketContents(F, chunk, diff) ==
    IF F.lastIncompleteChunk # << >>
    THEN IF diff < 1000
         THEN ParseLoop([F EXCEPT !.lastIncompleteChunk = << >>],
                        concat(F.lastIncompleteChunk, chunk))
         ELSE ParseLoop([F EXCEPT !.lastIncompleteChunk = << >>, !.warned = TRUE], chunk)
    ELSE ParseLoop(F, chunk)

(***************************************************************************)
(* Session Manager                                                         *)
(***************************************************************************)

\* setTimeout(..., 20000) in reconnect
ReconnectDelayMs == 20000

\* setTimeout(..., 5000) in successfullyConnectedToSpa
FaultCheckDelayMs == 5000

\* setInterval(..., 60 * 1000) in successfullyConnectedToSpa
StateUpdateCheckMs == 60000

\* every timer period is a multiple of the shortest one, so time advances in
\* steps of it (or less, up to the next timer that is due)
TickMs == FaultCheckDelayMs

CurS ==
    [ socket                     |-> socket,
      liveSockets                |-> liveSockets,
      isCurrentlyConnectedToSpa  |-> isCurrentlyConnectedToSpa,
      reconnecting               |-> reconnecting,
      reconnectTimers            |-> reconnectTimers,
      faultTimeouts              |-> faultTimeouts,
      faultCheckIntervalId       |-> faultCheckIntervalId,
      orphanIntervals            |-> orphanIntervals,
      stateUpdateCheckIntervalId |-> stateUpdateCheckIntervalId,
      stateUpdateCheckRemaining  |-> stateUpdateCheckRemaining,
      receivedStateUpdate        |-> receivedStateUpdate,
      lastStateBytes             |-> lastStateBytes,
      lastColorStateBytes        |-> lastColorStateBytes,
      lastFaultBytes             |-> lastFaultBytes,
      errorLog                   |-> errorLog ]

CommitS(S) ==
    /\ socket' = S.socket
    /\ liveSockets' = S.liveSockets
    /\ isCurrentlyConnectedToSpa' = S.isCurrentlyConnectedToSpa
    /\ reconnecting' = S.reconnecting
    /\ reconnectTimers' = S.reconnectTimers
    /\ faultTimeouts' = S.faultTimeouts
    /\ faultCheckIntervalId' = S.faultCheckIntervalId
    /\ orphanIntervals' = S.orphanIntervals
    /\ stateUpdateCheckIntervalId' = S.stateUpdateCheckIntervalId
    /\ stateUpdateCheckRemaining' = S.stateUpdateCheckRemaining
    /\ receivedStateUpdate' = S.receivedStateUpdate
    /\ lastStateBytes' = S.lastStateBytes
    /\ lastColorStateBytes' = S.lastColorStateBytes
    /\ lastFaultBytes' = S.lastFaultBytes
    /\ errorLog' = S.errorLog

\* the sequence without its element at position n
RemoveAt(seq, n) == SubSeq(seq, 1, n - 1) \o SubSeq(seq, n + 1, Len(seq))

get_socket(S) ==
    [S EXCEPT !.errorLog = IF S.isCurrentlyConnectedToSpa
                           THEN @ \cup {"Already connected, should not be trying again."}
                           ELSE @,
              !.socket = "connecting",
              !.liveSockets = @ + 1]

\* a teardown that leaves the client marked connected
shutdownSpaConnection_staysConnected(S) ==
    [S EXCEPT !.faultCheckIntervalId = FALSE,
              !.stateUpdateCheckIntervalId = FALSE,
              !.stateUpdateCheckRemaining = 0,
              !.liveSockets = IF S.socket \in {"connecting", "open"} THEN @ - 1 ELSE @,
              !.socket = "none"]

shutdownSpaConnection(S) ==
    [S EXCEPT !.isCurrentlyConnectedToSpa = FALSE,
              !.faultCheckIntervalId = FALSE,
              !.stateUpdateCheckIntervalId = FALSE,
              !.stateUpdateCheckRemaining = 0,
              \* socket.end(); socket.destroy()
              !.liveSockets = IF S.socket \in {"connecting", "open"} THEN @ - 1 ELSE @,
              !.socket = "none"]

\* mutant: reconnect without its reentrancy guard
reconnect_unguarded(S) ==
    [S EXCEPT !.reconnecting = TRUE,
              !.reconnectTimers = Append(@, ReconnectDelayMs)]

reconnect(S) ==
    IF ~S.reconnecting
    THEN [S EXCEPT !.reconnecting = TRUE,
                   !.reconnectTimers = Append(@, ReconnectDelayMs)]
    ELSE S

\* the socket's 'error' handler
OnError(S) == reconnect(shutdownSpaConnection(S))

\* the socket's 'end' handler: it only logs; the socket itself has ended
OnEnd(S) ==
    [S EXCEPT !.socket = "ended", !.liveSockets = @ - 1]

\* mutant: the timeout's callback clears the flag and opens no socket
ReconnectTimeout_noSocket(S) == [S EXCEPT !.reconnecting = FALSE]

\* the callback of reconnect's setTimeout
ReconnectTimeout(S) == [get_socket(S) EXCEPT !.reconnecting = FALSE]

\* a connection that keeps the frames of the connection before it
successfullyConnectedToSpa_noReset(S) ==
    [S EXCEPT !.socket = "open",
              !.isCurrentlyConnectedToSpa = TRUE,
              !.faultTimeouts = Append(@, FaultCheckDelayMs),
              !.errorLog = IF S.stateUpdateCheckIntervalId
                  THEN @ \cup {"Shouldn't ever already have a state update check interval running here."}
                  ELSE @,
              !.stateUpdateCheckIntervalId = TRUE,
              !.stateUpdateCheckRemaining = StateUpdateCheckMs]

\* the synchronous part of successfullyConnectedToSpa that writes session state
\* (the 'data' listener is the StatusFrame action; the one-shot panel and
\* config requests write nothing to the socket, see PacketsToWrite)
successfullyConnectedToSpa(S) ==
    [S EXCEPT !.socket = "open",
              !.isCurrentlyConnectedToSpa = TRUE,
              \* resetRecentState
              !.lastStateBytes = << >>,
              !.lastColorStateBytes = << >>,
              !.lastFaultBytes = << >>,
              !.faultTimeouts = Append(@, FaultCheckDelayMs),
              !.errorLog = IF S.stateUpdateCheckIntervalId
                  THEN @ \cup {"Shouldn't ever already have a state update check interval running here."}
                  ELSE @,
              !.stateUpdateCheckIntervalId = TRUE,
              !.stateUpdateCheckRemaining = StateUpdateCheckMs]

\* the callback of the 5 s setTimeout, on the session state
FaultCheckTimeout(S) ==
    [S EXCEPT !.errorLog = IF S.faultCheckIntervalId
                  THEN @ \cup {"Shouldn't ever already have a fault check interval running here."}
                  ELSE @,
              \* the interval whose id is overwritten stays armed (counted up to MaxOrphans)
              !.orphanIntervals = IF S.faultCheckIntervalId THEN Min(@ + 1, MaxOrphans) ELSE @,
              !.faultCheckIntervalId = TRUE]

\* a check that only clears the flag and never reports a silent spa
checkWeHaveReceivedStateUpdate_noError(S) ==
    [S EXCEPT !.receivedStateUpdate = FALSE]

\* checkWeHaveReceivedStateUpdate; emit("error") runs the error handler at once
checkWeHaveReceivedStateUpdate(S) ==
    IF S.receivedStateUpdate
    THEN [S EXCEPT !.receivedStateUpdate = FALSE]
    ELSE IF S.socket # "none" THEN OnError(S) ELSE S

\* the remaining times of all armed timers that are tracked
Remaining(S) ==
    { S.reconnectTimers[n] : n \in DOMAIN S.reconnectTimers }
    \cup { S.faultTimeouts[n] : n \in DOMAIN S.faultTimeouts }
    \cup (IF S.stateUpdateCheckIntervalId THEN {S.stateUpdateCheckRemaining} ELSE {})

SetMin(T) == CHOOSE x \in T : \A y \in T : x <= y

\* time passes: by TickMs, or up to the next timer that is due
Advance(S) ==
    LET d == Min(TickMs, SetMin(Remaining(S)))
    IN  [S EXCEPT !.reconnectTimers = [n \in DOMAIN S.reconnectTimers |-> S.reconnectTimers[n] - d],
                  !.faultTimeouts = [n \in DOMAIN S.faultTimeouts |-> S.faultTimeouts[n] - d],
                  !.stateUpdateCheckRemaining = IF S.stateUpdateCheckIntervalId THEN @ - d ELSE @]

(***************************************************************************)
(* Inputs                                                                  *)
(***************************************************************************)

\* HomeKit target temperatures in half degrees Celsius: 35 and 41 (out of range)
HomeKitValues == { 70, 82 }

\* TargetHeatingCoolingState values HomeKit may send (validValues [1,2])
HeatingStateValues == { 1 }

\* status frames of the session specification: high range with setpoint 100,
\* low range with setpoint 98
SessionStatusFrames == { StatusBytes(4, 100), StatusBytes(0, 98) }

(***************************************************************************)
(* Initial state: the SpaClient constructor has run, its get_socket call   *)
(* has started the first connection attempt                                *)
(***************************************************************************)

InitDeviceState ==
    /\ targetTempModeLow = Undefined
    /\ targetTempModeHigh = Undefined
    /\ tempRangeIsHigh = TRUE
    /\ tempChangeMode = FALSE
    /\ targetTempOverride = Undefined
    /\ accurateConfigReadFromSpa = FALSE
    /\ currentTemp = Undefined
    /\ flow = FLOW_GOOD
    /\ lastIncompleteChunk = << >>

\* no frame has been kept for comparison: the field initialisers, and the
\* state resetRecentState leaves
InitRecentState ==
    /\ lastStateBytes = << >>
    /\ lastColorStateBytes = << >>
    /\ lastFaultBytes = << >>

\* the constructor's values of the pump and light fields; no setPumpSpeed
\* call has been made
InitPumps ==
    /\ pumpsCurrentSpeed = << 0, 0, 0, 0, 0, 0 >>
    /\ pumpsOverrideSpeed = << -1, -1, -1, -1, -1, -1 >>
    /\ isFilterMode = FALSE
    /\ lightIsOn = << FALSE, FALSE >>
    /\ lightStatus = LIGHTOFF
    /\ pumpCalls = << >>

InitPlatform ==
    /\ InitPumps
    /\ recordedActions = << >>
    /\ replayed = << >>
    /\ engineCalls = << >>
    /\ requests = 0
    /\ scheduleId = Undefined
    /\ calls = << >>
    /\ sendCalls = << >>
    /\ written = << >>

Init ==
    /\ socket = "connecting"
    /\ liveSockets = 1
    /\ isCurrentlyConnectedToSpa = FALSE
    /\ reconnecting = FALSE
    /\ reconnectTimers = << >>
    /\ faultTimeouts = << >>
    /\ faultCheckIntervalId = FALSE
    /\ orphanIntervals = 0
    /\ stateUpdateCheckIntervalId = FALSE
    /\ stateUpdateCheckRemaining = 0
    /\ receivedStateUpdate = TRUE
    /\ errorLog = {}
    /\ repeatErrors = 0
    /\ deviceUp \in BOOLEAN
    /\ hostShutdown = FALSE
    /\ InitDeviceState
    /\ InitRecentState
    /\ InitPlatform
    /\ dev = << >>

(***************************************************************************)
(* Session actions                                                         *)
(***************************************************************************)

\* the net.connect callback
Connected ==
    /\ socket = "connecting"
    /\ deviceUp
    /\ \E S1 \in { successfullyConnectedToSpa(CurS) } :
          /\ CommitS(S1)
          /\ \E M0 \in { IF ~accurateConfigReadFromSpa
                          THEN sendControlTypesRequest(CurM, S1.socket)
                          ELSE CurM } :
                \* this.reconnectedCallback()
                \E M1 \in { executeAllRecordedActions(M0, S1.isCurrentlyConnectedToSpa,
                                S1.socket, targetTempModeLow, targetTempModeHigh,
                                tempRangeIsHigh) } :
                    Commit(M1)
    /\ UNCHANGED << repeatErrors, deviceUp, hostShutdown, accurateConfigReadFromSpa,
                    requests, deviceStateVars, pumpVars, scheduleId, frameVars >>

ConnectSucceeds == Connected /\ UNCHANGED dev

\* an 'error' event of the current socket; a connection attempt fails only
\* while the spa does not accept connections
SocketError ==
    /\ socket = "open" \/ (socket = "connecting" /\ ~deviceUp)
    /\ \E S1 \in { OnError(CurS) } : CommitS(S1)
    /\ repeatErrors' = MaxRepeatErrors
    /\ NoSend
    /\ UNCHANGED << deviceUp, hostShutdown, accurateConfigReadFromSpa, platformVars,
                    deviceStateVars, pumpVars, scheduleId, frameVars, targetTempOverride, calls, dev >>

\* a further 'error' event of the socket that failed, before a new one exists
RepeatError ==
    /\ repeatErrors > 0
    /\ socket = "none"
    /\ \E S1 \in { OnError(CurS) } : CommitS(S1)
    /\ repeatErrors' = repeatErrors - 1
    /\ NoSend
    /\ UNCHANGED << deviceUp, hostShutdown, accurateConfigReadFromSpa, platformVars,
                    deviceStateVars, pumpVars, scheduleId, frameVars, targetTempOverride, calls, dev >>

\* the 'end' event: the spa closed the connection
SocketEnd ==
    /\ socket = "open"
    /\ \E S1 \in { OnEnd(CurS) } : CommitS(S1)
    /\ NoSend
    /\ UNCHANGED << repeatErrors, deviceUp, hostShutdown, accurateConfigReadFromSpa,
                    platformVars, deviceStateVars, pumpVars, scheduleId, frameVars, targetTempOverride, calls, dev >>

ReconnectTimerFires ==
    /\ \E n \in DOMAIN reconnectTimers :
          /\ reconnectTimers[n] = 0
          /\ \E S1 \in { ReconnectTimeout([CurS EXCEPT !.reconnectTimers = RemoveAt(@, n)]) } :
                CommitS(S1)
    /\ repeatErrors' = 0
    /\ NoSend
    /\ UNCHANGED << deviceUp, hostShutdown, accurateConfigReadFromSpa, platformVars,
                    deviceStateVars, pumpVars, scheduleId, frameVars, targetTempOverride, calls, dev >>

\* the 5 s setTimeout of successfullyConnectedToSpa
FaultTimeoutFires ==
    /\ \E n \in DOMAIN faultTimeouts :
          /\ faultTimeouts[n] = 0
          /\ \E S1 \in { FaultCheckTimeout([CurS EXCEPT !.faultTimeouts = RemoveAt(@, n)]) } :
                CommitS(S1)
    /\ \E M1 \in { IF isCurrentlyConnectedToSpa
                    THEN send_request_for_faults_log(CurM, socket) ELSE CurM } :
          Commit(M1)
    /\ UNCHANGED << repeatErrors, deviceUp, hostShutdown, accurateConfigReadFromSpa,
                    requests, deviceStateVars, pumpVars, scheduleId, frameVars, dev >>

\* a fault-check interval fires (every 10 minutes; its phase is not tracked)
FaultCheckIntervalFires ==
    /\ faultCheckIntervalId \/ orphanIntervals > 0
    /\ \E M1 \in { IF isCurrentlyConnectedToSpa
                    THEN send_request_for_faults_log(CurM, socket) ELSE CurM } :
          Commit(M1)
    /\ UNCHANGED << sessionVars, requests, deviceStateVars, pumpVars, scheduleId, frameVars, dev >>

\* the 60 s liveness interval
StateUpdateCheckFires ==
    /\ stateUpdateCheckIntervalId
    /\ stateUpdateCheckRemaining = 0
    /\ \E S1 \in { [CurS EXCEPT !.stateUpdateCheckRemaining = StateUpdateCheckMs] } :
          \E S2 \in { IF isCurrentlyConnectedToSpa
                      THEN checkWeHaveReceivedStateUpdate(S1) ELSE S1 } :
              CommitS(S2)
    /\ NoSend
    /\ UNCHANGED << repeatErrors, deviceUp, hostShutdown, accurateConfigReadFromSpa,
                    platformVars, deviceStateVars, pumpVars, scheduleId, frameVars, targetTempOverride, calls, dev >>

\* time passes while no timer is due
Tick ==
    /\ Remaining(CurS) # {}
    /\ 0 \notin Remaining(CurS)
    /\ \E S1 \in { Advance(CurS) } : CommitS(S1)
    /\ NoSend
    /\ UNCHANGED << repeatErrors, deviceUp, hostShutdown, accurateConfigReadFromSpa,
                    platformVars, deviceStateVars, pumpVars, scheduleId, frameVars, targetTempOverride, calls, dev >>

\* the 'data' listener receives one well-formed status frame:
\* readStateFromBytes, then interpretControlTypesReply
\* minuteElapsed: spaLastUpdated is at least a minute old
ReceiveStatus(bytes) ==
    LET r == readStateFromBytes(bytes)
    IN  /\ receivedStateUpdate' = TRUE
        /\ currentTemp' = r.currentTemp
        /\ lastStateBytes' = bytes
        /\ \E minuteElapsed \in BOOLEAN :
              scheduleId' = AfterFrame(scheduleId,
                                StateBytesChanged(lastStateBytes, bytes) \/ minuteElapsed)
        \* interpretControlTypesReply, the first time
        /\ lightIsOn' = IF accurateConfigReadFromSpa THEN lightIsOn
                                                     ELSE [lightIsOn EXCEPT ![1] = TRUE]
        /\ tempRangeIsHigh' = r.tempRangeIsHigh
        /\ tempChangeMode' = r.tempChangeMode
        /\ targetTempModeHigh' = IF r.tempRangeIsHigh THEN r.setTemp ELSE targetTempModeHigh
        /\ targetTempModeLow' = IF r.tempRangeIsHigh THEN targetTempModeLow ELSE r.setTemp
        /\ isFilterMode' = r.isFilterMode
        /\ pumpsCurrentSpeed' = PumpsRead(pumpsCurrentSpeed, bytes)
        /\ accurateConfigReadFromSpa' = TRUE
        /\ NoSend
        /\ UNCHANGED << socket, liveSockets, isCurrentlyConnectedToSpa, reconnecting,
                        reconnectTimers, faultTimeouts, faultCheckIntervalId, orphanIntervals,
                        stateUpdateCheckIntervalId, stateUpdateCheckRemaining, errorLog,
                        repeatErrors, deviceUp, hostShutdown,
                        platformVars, targetTempOverride, calls,
                        pumpsOverrideSpeed, lightStatus, lastColorStateBytes,
                        lastFaultBytes, flow, lastIncompleteChunk >>

StatusFrame ==
    /\ socket = "open"
    /\ \E bytes \in SessionStatusFrames : ReceiveStatus(bytes)
    /\ UNCHANGED << dev, pumpCalls >>

\* the host's SHUTDOWN event
Shutdown ==
    /\ ~hostShutdown
    /\ \E S1 \in { shutdownSpaConnection(CurS) } : CommitS(S1)
    /\ hostShutdown' = TRUE
    /\ NoSend
    /\ UNCHANGED << repeatErrors, deviceUp, accurateConfigReadFromSpa, platformVars,
                    deviceStateVars, pumpVars, scheduleId, frameVars, targetTempOverride, calls, dev >>

\* HomeKit sets the target temperature
SetTargetTemperatureRequest ==
    /\ requests < MaxRequests
    /\ \E value \in HomeKitValues :
          \E M1 \in { AccessorySetTargetTemperature(CurM, value, isCurrentlyConnectedToSpa,
                          socket, targetTempModeLow, targetTempModeHigh, tempRangeIsHigh) } :
              Commit(M1)
    /\ requests' = requests + 1
    /\ UNCHANGED << sessionVars, deviceStateVars, pumpVars, scheduleId, frameVars, dev >>

\* HomeKit sets the target heating state
SetTargetHeatingStateRequest ==
    /\ requests < MaxRequests
    /\ \E value \in HeatingStateValues :
          \E M1 \in { AccessorySetTargetHeatingState(CurM, value, isCurrentlyConnectedToSpa) } :
              Commit(M1)
    /\ requests' = requests + 1
    /\ UNCHANGED << sessionVars, deviceStateVars, pumpVars, scheduleId, frameVars, dev >>

\* environment: the spa starts or stops accepting connections
DeviceAvailabilityChanges ==
    /\ deviceUp' = ~deviceUp
    /\ NoSend
    /\ UNCHANGED << socket, liveSockets, isCurrentlyConnectedToSpa, reconnecting,
                    reconnectTimers, faultTimeouts, faultCheckIntervalId, orphanIntervals,
                    stateUpdateCheckIntervalId, stateUpdateCheckRemaining,
                    receivedStateUpdate, lastStateBytes, lastColorStateBytes,
                    lastFaultBytes, errorLog, repeatErrors, hostShutdown,
                    accurateConfigReadFromSpa, platformVars, deviceStateVars, pumpVars, scheduleId, frameVars,
                    targetTempOverride, calls, dev >>

\* the session manager with the spa and the host as its environment
Next ==
    \/ ConnectSucceeds
    \/ SocketError
    \/ RepeatError
    \/ SocketEnd
    \/ ReconnectTimerFires
    \/ FaultTimeoutFires
    \/ FaultCheckIntervalFires
    \/ StateUpdateCheckFires
    \/ Tick
    \/ StatusFrame
    \/ Shutdown
    \/ DeviceAvailabilityChanges

Spec == Init /\ [][Next]_vars

(***************************************************************************)
(* The accessory layer over the session manager: HomeKit requests arrive   *)
(* while the connection comes and goes                                     *)
(***************************************************************************)

PlatformInit == Init /\ deviceUp

PlatformNext ==
    \/ SetTargetTemperatureRequest
    \/ SetTargetHeatingStateRequest
    \/ ConnectSucceeds
    \/ SocketError
    \/ ReconnectTimerFires
    \/ FaultTimeoutFires
    \/ StateUpdateCheckFires
    \/ Tick

PlatformSpec == PlatformInit /\ [][PlatformNext]_vars

(***************************************************************************)
(* The session manager under the scheduling Node.js guarantees: a timer    *)
(* that is due fires, time passes, and a connection attempt the spa        *)
(* accepts completes                                                       *)
(***************************************************************************)

FairSpec ==
    /\ Spec
    /\ WF_vars(Tick)
    /\ WF_vars(ReconnectTimerFires)
    /\ WF_vars(FaultTimeoutFires)
    /\ WF_vars(StateUpdateCheckFires)
    /\ WF_vars(ConnectSucceeds)

(***************************************************************************)
(* Reconnection                                                            *)
(***************************************************************************)

\* a step in which the socket's 'error' handler runs
ErrorStep ==
    \/ SocketError
    \/ RepeatError
    \/ (StateUpdateCheckFires /\ isCurrentlyConnectedToSpa /\ ~receivedStateUpdate)

\* C1: at every moment at most one reconnect timer is pending; an error event
\* that arrives while one is pending leaves it as it is (no further reconnect
\* is scheduled, the pending one is not restarted); and the step that consumes
\* a pending timer makes exactly one new connection attempt.
C1_SingleReconnect ==
    [][ /\ Len(reconnectTimers) <= 1
        /\ Len(reconnectTimers') <= 1
        /\ (ErrorStep /\ reconnectTimers # << >> => reconnectTimers' = reconnectTimers)
        /\ (Len(reconnectTimers') < Len(reconnectTimers)
              => socket' = "connecting" /\ liveSockets' = liveSockets + 1)
        /\ (liveSockets' > liveSockets
              => Len(reconnectTimers') < Len(reconnectTimers)) ]_vars

\* every further error of the failed socket has arrived while the reconnect
\* was pending, part of its delay already gone
C1_Witness ==
    /\ repeatErrors = 0
    /\ Len(reconnectTimers) = 1
    /\ reconnectTimers[1] < ReconnectDelayMs

\* C2: a socket error (a failed connection attempt included) leaves the client
\* without a socket, Disconnected, its periodic timers cleared and one
\* reconnect pending, 20 seconds away when the error is the socket's first;
\* a pending reconnect leads to a new connection attempt; and if the spa
\* accepts connections from some time on and the host never shuts down, the
\* client is Connected again and again.
C2_ErrorRecovers ==
    /\ [][ /\ (ErrorStep => /\ socket' = "none"
                            /\ ~isCurrentlyConnectedToSpa'
                            /\ ~faultCheckIntervalId'
                            /\ ~stateUpdateCheckIntervalId'
                            /\ reconnecting'
                            /\ Len(reconnectTimers') = 1)
           /\ (ErrorStep /\ socket # "none" => reconnectTimers' = << ReconnectDelayMs >>) ]_vars
    /\ (reconnectTimers # << >>) ~> (socket = "connecting")
    /\ (<>[]deviceUp /\ []~hostShutdown)
          => []<>(isCurrentlyConnectedToSpa /\ socket = "open")

\* Connected again after an error: the 5 s timeout of an earlier connection has
\* armed the fault-check interval and that of the new connection is pending
C2_Witness ==
    /\ isCurrentlyConnectedToSpa
    /\ socket = "open"
    /\ faultCheckIntervalId
    /\ faultTimeouts = << FaultCheckDelayMs >>

\* C3: a socket 'end' event is handled like an error: the step that handles
\* it leaves the client without a socket, Disconnected, its periodic timers
\* cleared and one reconnect pending, 20 seconds away.
C3_EndLikeError ==
    [][ SocketEnd => /\ socket' = "none"
                     /\ ~isCurrentlyConnectedToSpa'
                     /\ ~faultCheckIntervalId'
                     /\ ~stateUpdateCheckIntervalId'
                     /\ reconnectTimers' = << ReconnectDelayMs >> ]_vars

\* C4: once the host's shutdown has been handled the client holds no socket
\* and is Disconnected, now and ever after (it never opens a new socket).
C4_NoSocketAfterShutdown ==
    hostShutdown => /\ socket = "none"
                    /\ liveSockets = 0
                    /\ ~isCurrentlyConnectedToSpa

\* the two log.error messages of successfullyConnectedToSpa about intervals
IntervalAlreadyRunning ==
    { "Shouldn't ever already have a fault check interval running here.",
      "Shouldn't ever already have a state update check interval running here." }

\* C5: while the client is Disconnected no fault-check and no liveness-check
\* interval is armed, and neither "Shouldn't ever already have a ... interval
\* running here" branch is ever taken.
C5_TeardownCancelsTimers ==
    /\ ~isCurrentlyConnectedToSpa =>
          /\ ~faultCheckIntervalId
          /\ ~stateUpdateCheckIntervalId
          /\ orphanIntervals = 0
    /\ errorLog \cap IntervalAlreadyRunning = {}

(***************************************************************************)
(* Replay queue                                                            *)
(***************************************************************************)

RECURSIVE EngineTemps(_)
\* the temperatures the recorded functions of a queue pass to the Command
\* Engine when they are invoked while connected, in order
EngineTemps(q) ==
    IF q = << >> THEN << >>
    ELSE (IF Head(q).fn = "setTargetTemperature" /\ Head(q).value >= 20 /\ Head(q).value <= 80
          THEN << RoundedFahrenheit(Head(q).value) >> ELSE << >>) \o EngineTemps(Tail(q))

\* C6: the step that makes the client Connected invokes every recorded
\* action once, in the order recorded (so each recorded set-temperature
\* reaches the Command Engine in that order), and leaves the queue empty;
\* no other step invokes or removes a recorded action.
C6_ReplayFifo ==
    [][ /\ (~isCurrentlyConnectedToSpa /\ isCurrentlyConnectedToSpa'
              => /\ recordedActions' = << >>
                 /\ replayed' = replayed \o recordedActions
                 /\ engineCalls' = engineCalls \o EngineTemps(recordedActions))
        /\ (~(~isCurrentlyConnectedToSpa /\ isCurrentlyConnectedToSpa')
              => /\ replayed' = replayed
                 /\ Len(recordedActions') >= Len(recordedActions)
                 /\ SubSeq(recordedActions', 1, Len(recordedActions)) = recordedActions) ]_vars

\* two different actions recorded while Disconnected have been replayed
C6_Witness ==
    /\ isCurrentlyConnectedToSpa
    /\ recordedActions = << >>
    /\ Len(replayed) >= 2
    /\ replayed[1] # replayed[2]

\* C7: a set-target-temperature request handled while the client is not
\* connected is appended to the replay queue, writes nothing to the socket
\* and starts no Command Engine call; one handled while connected is not
\* queued; and the Command Engine is only ever called while connected.
C7_QueuedWhenDisconnected ==
    [][ /\ (SetTargetTemperatureRequest /\ ~isCurrentlyConnectedToSpa
              => /\ Len(recordedActions') = Len(recordedActions) + 1
                 /\ SubSeq(recordedActions', 1, Len(recordedActions)) = recordedActions
                 /\ recordedActions'[Len(recordedActions')].fn = "setTargetTemperature"
                 /\ written' = << >>
                 /\ engineCalls' = engineCalls
                 /\ calls' = calls
                 /\ targetTempOverride' = targetTempOverride)
        /\ (SetTargetTemperatureRequest /\ isCurrentlyConnectedToSpa
              => recordedActions' = recordedActions)
        /\ (engineCalls' # engineCalls => isCurrentlyConnectedToSpa') ]_vars

\* a set-target-temperature request waits in the queue of a Disconnected
\* client, nothing written
C7_Witness ==
    /\ ~isCurrentlyConnectedToSpa
    /\ recordedActions # << >>
    /\ recordedActions[Len(recordedActions)].fn = "setTargetTemperature"
    /\ written = << >>

(***************************************************************************)
(* The outbound codec: every caller of sendMessageToSpa, called at any     *)
(* moment of a connection that comes and goes                              *)
(***************************************************************************)

\* one call of sendMessageToSpa with nothing else done
Sends(M1) ==
    /\ requests < MaxSends
    /\ requests' = requests + 1
    /\ Commit(M1)
    /\ UNCHANGED << sessionVars, deviceStateVars, pumpVars, scheduleId, frameVars, dev >>

SendConfigRequest ==
    \E M1 \in { send_config_request(CurM, socket) } : Sends(M1)

SendControlTypesRequest ==
    \E M1 \in { sendControlTypesRequest(CurM, socket) } : Sends(M1)

SendControlPanelRequest ==
    \E id \in 0..3 : \E M1 \in { sendControlPanelRequest(CurM, socket, id) } : Sends(M1)

SendRequestForFaultsLog ==
    \E M1 \in { send_request_for_faults_log(CurM, socket) } : Sends(M1)

SendButtonPress ==
    \E b \in ButtonPresses : \E M1 \in { sendMessageToSpa(CurM, socket, b[1], b[2]) } : Sends(M1)

SendNext ==
    \/ SendConfigRequest
    \/ SendControlTypesRequest
    \/ SendControlPanelRequest
    \/ SendRequestForFaultsLog
    \/ SendButtonPress
    \/ ConnectSucceeds
    \/ SocketError
    \/ ReconnectTimerFires
    \/ FaultTimeoutFires
    \/ StateUpdateCheckFires
    \/ Tick

SendSpec == PlatformInit /\ [][SendNext]_vars

\* C8: every call of sendMessageToSpa made while the client holds a socket
\* writes one frame to it: the encrypted packet when the type is in the
\* encryption lookup table, and the message as built (unmodified) for every
\* other type.
C8_EveryTypeWritten ==
    [][ requests' = requests + 1 /\ socket # "none"
          => /\ Len(sendCalls') = 1
             /\ written' = << IF At(sendCalls'[1][1], 2) \in etypes
                              THEN PacketsToWrite(sendCalls'[1][1], sendCalls'[1][2])[1]
                              ELSE PlainMessage(sendCalls'[1][1], sendCalls'[1][2]) >> ]_vars

(***************************************************************************)
(* The Command Engine on an open connection                                *)
(***************************************************************************)

\* the session right after a successful connection
EngineInit ==
    /\ socket = "open"
    /\ liveSockets = 1
    /\ isCurrentlyConnectedToSpa = TRUE
    /\ reconnecting = FALSE
    /\ reconnectTimers = << >>
    /\ faultTimeouts = << FaultCheckDelayMs >>
    /\ faultCheckIntervalId = FALSE
    /\ orphanIntervals = 0
    /\ stateUpdateCheckIntervalId = TRUE
    /\ stateUpdateCheckRemaining = StateUpdateCheckMs
    /\ receivedStateUpdate = TRUE
    /\ errorLog = {}
    /\ repeatErrors = 0
    /\ deviceUp = TRUE
    /\ hostShutdown = FALSE
    /\ InitPlatform

\* the calls that have not returned
InFlight(cs) == SelectSeq(cs, LAMBDA c : c.pc = "await")

\* spa.setTargetTemperature(temp) is called while no earlier call is in
\* flight (the locals of the calls that have returned are gone)
StartCall(temps) ==
    /\ requests < MaxCalls
    /\ InFlight(calls) = << >>
    /\ \E temp \in temps :
          \E M1 \in { setTargetTemperature([CurM EXCEPT !.calls = << >>], temp, socket,
                          targetTempModeLow, targetTempModeHigh, tempRangeIsHigh) } :
              Commit(M1)
    /\ requests' = requests + 1
    /\ UNCHANGED << sessionVars, deviceStateVars, pumpVars, scheduleId, frameVars >>

\* the one-second wait of a call in flight is over
Poll ==
    /\ \E k \in DOMAIN calls :
          /\ calls[k].pc = "await"
          /\ \E M1 \in { AfterWait(CurM, k, socket, targetTempModeLow, targetTempModeHigh,
                                   tempRangeIsHigh, tempChangeMode) } :
                Commit(M1)
    /\ UNCHANGED << sessionVars, deviceStateVars, pumpVars, scheduleId, frameVars, requests, dev >>

\* targets of the calls: one between the setpoints the frames report, one
\* above them
TempTargets == { 99, 104 }

\* what the spa may report at any moment: low range with setpoint 98 or 99,
\* high range with setpoint 100, with the temperature-change flag set or not
TempStatusFrames ==
    { StatusBytes(0, 98), StatusBytes(0, 99), StatusBytes(36, 100), StatusBytes(4, 100) }

TempStartCall == StartCall(TempTargets) /\ UNCHANGED dev

TempStatusFrame ==
    /\ \E bytes \in TempStatusFrames : ReceiveStatus(bytes)
    /\ UNCHANGED << dev, pumpCalls >>

TempInit ==
    /\ EngineInit
    /\ InitDeviceState
    /\ InitRecentState
    /\ dev = << >>

TempNext ==
    \/ TempStartCall
    \/ Poll
    \/ TempStatusFrame

\* the timer of a call's wait fires
TempSpec == TempInit /\ [][TempNext]_vars /\ WF_vars(Poll)

\* a step in which call k of calls' runs: it starts, or its wait ends
Runs(k) ==
    \/ requests' = requests + 1 /\ k = Len(calls')
    \/ requests' = requests /\ k \in DOMAIN calls /\ calls'[k] # calls[k]

\* C10: a call in flight has finished fewer than 60 iterations and no call
\* goes beyond 60; every step of a call after its start ends one wait and
\* counts one iteration, and a step of a call writes at most one command, in
\* an iteration below 60; the step in which a call returns leaves the
\* override cleared; and every call in flight returns, so that an override
\* that is set is cleared later, whatever status frames arrive.
C10_Terminates ==
    /\ [](\A k \in DOMAIN calls :
            /\ calls[k].i <= RetryBudget
            /\ (calls[k].pc = "await" => calls[k].i < RetryBudget))
    /\ [][ \A k \in DOMAIN calls' :
             Runs(k) =>
               /\ (requests' = requests => calls'[k].i = calls[k].i + 1)
               /\ Len(written') <= 1
               /\ (written' # << >> => calls'[k].i < RetryBudget /\ calls'[k].pc = "await")
               /\ (calls'[k].pc = "done" => targetTempOverride' = Undefined) ]_vars
    /\ (InFlight(calls) # << >>) ~> (InFlight(calls) = << >>)
    /\ (targetTempOverride # Undefined) ~> (targetTempOverride = Undefined)

\* a call has used the whole retry budget and returned, the override cleared
C10_Witness ==
    /\ calls # << >>
    /\ calls[1].pc = "done"
    /\ calls[1].i = RetryBudget
    /\ targetTempOverride = Undefined

(***************************************************************************)
(* The Command Engine with a spa that applies every Up/Down command to the *)
(* setpoint of its active range and reports it before the next poll        *)
(***************************************************************************)

\* setpoints of the spa's two ranges when the run starts
IdealLowSetpoints == { 70 }

IdealHighSetpoints == { 100 }

\* targets of the calls: 59 below the high setpoint, 4 above each setpoint,
\* and the two setpoints themselves
IdealTargets == { 41, 70, 74, 100, 104 }

\* the setpoint of the spa's active range
DevActive(d) == IF d.rangeHigh THEN d.setHigh ELSE d.setLow

Abs(n) == IF n < 0 THEN 0 - n ELSE n

\* the status frame the spa sends for its state: byte 10 carries the range
\* flag, byte 21 the setpoint of the active range
DevStatus(d) == StatusBytes(IF d.rangeHigh THEN 4 ELSE 0, DevActive(d))

\* the client has seen the spa's status in its active range, and may have
\* seen it in the other range earlier; start and presses are the books of
\* the run: the active setpoint when the call started, the commands applied
IdealInit ==
    /\ EngineInit
    /\ \E lo \in IdealLowSetpoints, hi \in IdealHighSetpoints, rh \in BOOLEAN :
          /\ dev = [ setLow |-> lo, setHigh |-> hi, rangeHigh |-> rh,
                     start |-> IF rh THEN hi ELSE lo, presses |-> 0 ]
          /\ tempRangeIsHigh = rh
          /\ targetTempModeHigh \in (IF rh THEN { hi } ELSE { Undefined, hi })
          /\ targetTempModeLow \in (IF rh THEN { Undefined, lo } ELSE { lo })
          \* the status frame the fields were read from
          /\ lastStateBytes = StatusBytes(IF rh THEN 4 ELSE 0, IF rh THEN hi ELSE lo)
    /\ lastColorStateBytes = << >>
    /\ lastFaultBytes = << >>
    /\ tempChangeMode = FALSE
    /\ targetTempOverride = Undefined
    /\ accurateConfigReadFromSpa = TRUE
    /\ currentTemp = 0
    /\ flow = FLOW_GOOD
    /\ lastIncompleteChunk = << >>

IdealStartCall ==
    /\ written = << >>
    /\ StartCall(IdealTargets)
    /\ dev' = [dev EXCEPT !.start = DevActive(dev), !.presses = 0]

\* the wait of a call ends after the spa has applied the last command
IdealPoll ==
    /\ written = << >>
    /\ Poll

\* the spa deciphers the packet written last, moves the setpoint of its
\* active range by one (button 1 up, 2 down) and sends its status
DeviceApplies ==
    /\ written # << >>
    /\ \E btn \in { At(decrypt(written[1]), 6) } :
          \E d \in { [dev EXCEPT
                        !.setHigh = IF dev.rangeHigh
                                    THEN @ + (IF btn = 1 THEN 1 ELSE IF btn = 2 THEN -1 ELSE 0)
                                    ELSE @,
                        !.setLow  = IF ~dev.rangeHigh
                                    THEN @ + (IF btn = 1 THEN 1 ELSE IF btn = 2 THEN -1 ELSE 0)
                                    ELSE @,
                        !.presses = @ + 1] } :
              /\ dev' = d
              /\ ReceiveStatus(DevStatus(d))
    /\ UNCHANGED pumpCalls

IdealNext ==
    \/ IdealStartCall
    \/ IdealPoll
    \/ DeviceApplies

TempIdealSpec == IdealInit /\ [][IdealNext]_vars /\ WF_vars(IdealPoll) /\ WF_vars(DeviceApplies)

\* C9: with a spa that applies each command before the next poll, a call
\* with a target d units from the active setpoint never has more than d
\* commands applied, and when it has returned exactly d commands have been
\* applied, the spa's active setpoint equals the target (so every command
\* went the right way), the call stopped in the iteration that observed it
\* (after d waits) and the override is cleared.
C9_ExactlyDCommands ==
    \A k \in DOMAIN calls :
        LET d == Abs(calls[k].temp - dev.start)
        IN  /\ dev.presses <= d
            /\ calls[k].pc = "done" =>
                  /\ dev.presses = d
                  /\ DevActive(dev) = calls[k].temp
                  /\ calls[k].i = d
                  /\ targetTempOverride = Undefined

\* C11: a call whose target equals the setpoint getTargetTemp reports (no
\* override set, the setpoint of the active range known) writes no command
\* and has returned, the override cleared, when the step that starts it ends.
C11_NoCommandAtSetpoint ==
    [][ \A k \in DOMAIN calls' :
          /\ requests' = requests + 1
          /\ k = Len(calls')
          /\ targetTempOverride = Undefined
          /\ ActiveSetTemp(targetTempModeLow, targetTempModeHigh, tempRangeIsHigh) # Undefined
          /\ calls'[k].temp = getTargetTemp(targetTempOverride, targetTempModeLow,
                                            targetTempModeHigh, tempRangeIsHigh)
          => /\ written' = << >>
             /\ calls'[k].pc = "done"
             /\ targetTempOverride' = Undefined ]_vars

\* the setpoint the engine reads from the Device State
ObservedSetTemp == LowOrHigh(targetTempModeLow, targetTempModeHigh)

\* C12: once a status frame has reported a setpoint, a step that ends the
\* wait of a call writes a command only if the setpoint observed after the
\* wait differs from its value before the previous command, or the
\* temperature-change flag is set while the setpoint is still the original one.
C12_CommandOnlyAfterChange ==
    [][ \A k \in DOMAIN calls :
          /\ requests' = requests
          /\ calls'[k] # calls[k]
          /\ (targetTempModeLow # Undefined \/ targetTempModeHigh # Undefined)
          /\ written' # << >>
          => \/ ObservedSetTemp # calls[k].previousSetTemp
             \/ (tempChangeMode /\ ObservedSetTemp = calls[k].original_temp) ]_vars

(***************************************************************************)
(* Overlapping calls of the Command Engine: a call starts while earlier    *)
(* ones are in their waits; the spa reports a setpoint at any moment       *)
(***************************************************************************)

OverlapInit ==
    /\ EngineInit
    /\ targetTempModeLow = 98
    /\ targetTempModeHigh = Undefined
    /\ tempRangeIsHigh = FALSE
    /\ tempChangeMode = FALSE
    /\ targetTempOverride = Undefined
    /\ accurateConfigReadFromSpa = TRUE
    /\ currentTemp = 0
    /\ flow = FLOW_GOOD
    /\ lastIncompleteChunk = << >>
    \* the status frame the fields were read from
    /\ lastStateBytes = StatusBytes(0, 98)
    /\ lastColorStateBytes = << >>
    /\ lastFaultBytes = << >>
    /\ dev = << >>

\* spa.setTargetTemperature(temp), whether or not earlier calls are in
\* flight; the locals of the calls that have returned are gone
OverlapStartCall ==
    /\ requests < MaxOverlap
    /\ \E temp \in { 99, 100 } :
          \E M1 \in { setTargetTemperature([CurM EXCEPT !.calls = InFlight(calls)], temp, socket,
                          targetTempModeLow, targetTempModeHigh, tempRangeIsHigh) } :
              Commit(M1)
    /\ requests' = requests + 1
    /\ UNCHANGED << sessionVars, deviceStateVars, pumpVars, scheduleId, frameVars, dev >>

OverlapStatusFrame ==
    \* the spa was last seen in low range with setpoint 98 and may report 99
    /\ \E bytes \in { StatusBytes(0, 99) } : ReceiveStatus(bytes)
    /\ UNCHANGED << dev, pumpCalls >>

OverlapNext ==
    \/ OverlapStartCall
    \/ Poll
    \/ OverlapStatusFrame

OverlapSpec == OverlapInit /\ [][OverlapNext]_vars /\ WF_vars(Poll)

\* C13: while a call is in flight, getTargetTemp returns the target of the
\* call started last (the last element of calls), whatever status frames
\* have been processed and whatever other calls have started or returned.
C13_OverrideShadows ==
    InFlight(calls) # << >> =>
        getTargetTemp(targetTempOverride, targetTempModeLow, targetTempModeHigh,
                      tempRangeIsHigh) = calls[Len(calls)].temp

(***************************************************************************)
(* The pump and light commands on an open connection, with status frames   *)
(* arriving at any moment                                                  *)
(***************************************************************************)

PumpNumbers == { 1, 2, 3 }

PumpSpeeds == { 0, 1, 2, 3 }

LightNumbers == { 1, 3 }

\* a decrypted status packet with the given bytes 8, 10 and 26
PumpStatusBytes(b8, b10, b26) ==
    [ n \in 1..StatusPacketLen |->
        IF n = 9 THEN b8 ELSE IF n = 11 THEN b10 ELSE IF n = 27 THEN b26 ELSE 0 ]

\* what the spa may report: both pumps off; pump 2 high (bits 3-4 of byte 10)
\* in filter mode; bits 2-3 of byte 8 holding 2
PumpStatusFrames ==
    { PumpStatusBytes(0, 8, 0), PumpStatusBytes(0, 24, 128), PumpStatusBytes(8, 8, 0) }

PumpInit ==
    /\ EngineInit
    /\ InitDeviceState
    /\ InitRecentState
    /\ dev = << >>

\* the session fields a command leaves alone (it may write the error log)
sessionVarsButLog == << socket, liveSockets, isCurrentlyConnectedToSpa, reconnecting,
                        reconnectTimers, faultTimeouts, faultCheckIntervalId, orphanIntervals,
                        stateUpdateCheckIntervalId, stateUpdateCheckRemaining,
                        receivedStateUpdate, lastStateBytes, lastColorStateBytes,
                        lastFaultBytes, repeatErrors, deviceUp, hostShutdown, accurateConfigReadFromSpa >>

\* spa.setPumpSpeed(index, desiredSpeed); the locals of the calls that have
\* returned are gone
SetPumpSpeedRequest(index, desiredSpeed) ==
    /\ requests < MaxPumpCalls
    /\ \E P1 \in { setPumpSpeed([CurP EXCEPT !.pumpCalls = InFlight(pumpCalls)],
                                index, desiredSpeed, socket, isFilterMode) } :
          CommitP(P1)
    /\ requests' = requests + 1
    /\ UNCHANGED << sessionVarsButLog, deviceStateVars, isFilterMode, lightIsOn, lightStatus, scheduleId, frameVars,
                    recordedActions, replayed, engineCalls, targetTempOverride, calls, dev >>

PumpStartCall ==
    \E index \in PumpNumbers, desiredSpeed \in PumpSpeeds :
        SetPumpSpeedRequest(index, desiredSpeed)

\* the one-second wait of a setPumpSpeed call is over
PumpPoll ==
    /\ \E k \in DOMAIN pumpCalls :
          /\ pumpCalls[k].pc = "await"
          /\ \E P1 \in { PumpAfterWait(CurP, k, socket) } : CommitP(P1)
    /\ UNCHANGED << sessionVarsButLog, deviceStateVars, isFilterMode, lightIsOn, lightStatus, scheduleId, frameVars,
                    platformVars, targetTempOverride, calls, dev >>

\* spa.setLightState(index, value)
SetLightStateRequest(index, value) ==
    /\ requests < MaxPumpCalls
    /\ \E P1 \in { setLightState(CurP, index, value, socket, lightIsOn) } : CommitP(P1)
    /\ requests' = requests + 1
    /\ UNCHANGED << sessionVarsButLog, deviceStateVars, isFilterMode, lightIsOn, lightStatus, scheduleId, frameVars,
                    recordedActions, replayed, engineCalls, targetTempOverride, calls, dev >>

LightCall ==
    \E index \in LightNumbers, value \in BOOLEAN :
        SetLightStateRequest(index, value)

\* a status frame arrives; a call in flight whose pump's speed it changes is
\* marked in the call's books
PumpStatusFrame ==
    /\ \E bytes \in PumpStatusFrames :
          /\ ReceiveStatus(bytes)
          /\ pumpCalls' = [ k \in DOMAIN pumpCalls |->
                 IF /\ pumpCalls[k].pc = "await"
                    /\ PumpsRead(pumpsCurrentSpeed, bytes)[pumpCalls[k].index]
                         # pumpsCurrentSpeed[pumpCalls[k].index]
                 THEN [pumpCalls[k] EXCEPT !.disturbed = TRUE]
                 ELSE pumpCalls[k] ]
    /\ UNCHANGED dev

PumpNext ==
    \/ PumpStartCall
    \/ PumpPoll
    \/ LightCall
    \/ PumpStatusFrame

\* the timer of a call's wait fires
PumpSpec == PumpInit /\ [][PumpNext]_vars /\ WF_vars(PumpPoll)

\* the filter-mode restriction applies to a call: pump 2, started in filter mode
FilterRestricted(c) == c.filter /\ c.index = 2

\* the forward cyclic distance from speed c0 to the desired speed
CyclicDistance(c) == (c.desiredSpeed - c.c0) % (pumpsSpeedRange[c.index] + 1)

\* a step in which call k of pumpCalls' runs: it starts, or its wait ends
PumpRuns(k) ==
    \/ requests' = requests + 1 /\ Len(pumpCalls') > Len(InFlight(pumpCalls))
                                /\ k = Len(pumpCalls')
    \/ requests' = requests /\ k \in DOMAIN pumpCalls /\ pumpCalls'[k].i = pumpCalls[k].i + 1

RaisedSpeed(c) == IF c.requested = 0 THEN 1 ELSE c.requested

NewestForPump(k) ==
    \A j \in DOMAIN pumpCalls :
        pumpCalls[j].pc = "await" /\ pumpCalls[j].index = pumpCalls[k].index => j <= k

\* C16: while a setPumpSpeed call is in flight and no later call for the same
\* pump is, getPumpSpeed returns the call's desired speed, whatever status
\* frames and other commands have been processed; the step in which a call
\* returns leaves the pump's override cleared and its current speed equal to
\* the desired speed.
C16_PumpOverrideShadows ==
    /\ [](\A k \in DOMAIN pumpCalls :
            pumpCalls[k].pc = "await" /\ NewestForPump(k) =>
                getPumpSpeed(pumpCalls[k].index, pumpsCurrentSpeed, pumpsOverrideSpeed)
                    = pumpCalls[k].desiredSpeed)
    /\ [][ \A k \in DOMAIN pumpCalls' :
             PumpRuns(k) /\ pumpCalls'[k].pc = "done" =>
                /\ pumpsOverrideSpeed'[pumpCalls'[k].index] = -1
                /\ pumpsCurrentSpeed'[pumpCalls'[k].index] = pumpCalls'[k].desiredSpeed ]_vars

\* C17: a setPumpSpeed call for a pump whose capability is 0 or with a speed
\* above the capability, and a setLightState call for a light that does not
\* exist, write nothing and leave the Device State, the overrides and the
\* calls in flight as they were.
C17_RejectedIsNoOp ==
    [][ ( \/ \E index \in PumpNumbers, desiredSpeed \in PumpSpeeds :
                /\ SetPumpSpeedRequest(index, desiredSpeed)
                /\ (pumpsSpeedRange[index] = 0 \/ desiredSpeed > pumpsSpeedRange[index])
          \/ \E index \in LightNumbers, value \in BOOLEAN :
                /\ SetLightStateRequest(index, value)
                /\ index \notin DOMAIN lightIsOn )
        => /\ written' = << >>
           /\ sendCalls' = << >>
           /\ InFlight(pumpCalls') = InFlight(pumpCalls)
           /\ UNCHANGED << deviceStateVars, pumpsCurrentSpeed, pumpsOverrideSpeed,
                           isFilterMode, lightIsOn, targetTempOverride, calls >> ]_vars

\* a command has been rejected (its error is in the log) while a
\* setPumpSpeed call is in flight with its override set
C17_Witness ==
    /\ errorLog \cap { "Trying to set speed of a pump which doesn't exist",
                       "Trying to set speed faster than the pump supports",
                       "Trying to set state of a light which doesn't exist" } # {}
    /\ \E k \in DOMAIN pumpCalls :
          /\ pumpCalls[k].pc = "await"
          /\ pumpsOverrideSpeed[pumpCalls[k].index] # -1

\* C18: every pump's current speed lies between 0 and the pump's capability.
C18_SpeedWithinRange ==
    \A i \in DOMAIN pumpsCurrentSpeed :
        pumpsCurrentSpeed[i] >= 0 /\ pumpsCurrentSpeed[i] <= pumpsSpeedRange[i]

(***************************************************************************)
(* The liveness check of the session manager                               *)
(***************************************************************************)

ChangeInit ==
    /\ EngineInit
    /\ InitDeviceState
    /\ InitRecentState
    /\ dev = [ lastStatus |-> << >>, statusSeen |-> FALSE, statusRepeated |-> FALSE,
               lastLight  |-> << >>, lightSeen  |-> FALSE, lightRepeated  |-> FALSE ]

ChangeConnect ==
    /\ Connected
    /\ dev' = [dev EXCEPT !.statusSeen = FALSE, !.lightSeen = FALSE]

ChangeStatusFrame ==
    /\ socket = "open"
    /\ \E bytes \in { StatusBytes(0, 98), StatusBytes(0, 99) } :
          /\ ReceiveStatus(bytes)
          /\ dev' = [dev EXCEPT !.lastStatus = bytes,
                                !.statusSeen = TRUE,
                                !.statusRepeated = @ \/ (~dev.statusSeen /\ bytes = dev.lastStatus)]
    /\ UNCHANGED pumpCalls

\* the 'data' listener receives one well-formed light-status frame:
\* readLightStateFromBytes; minuteElapsed: lightLastUpdated is at least a
\* minute old
ReceiveLight(bytes) ==
    /\ lightStatus' = LightStatusRead(lightStatus, bytes)
    /\ lightIsOn' = [lightIsOn EXCEPT ![1] = LightStatusRead(lightStatus, bytes) # LIGHTOFF]
    /\ lastColorStateBytes' = bytes
    /\ \E minuteElapsed \in BOOLEAN :
          scheduleId' = AfterFrame(scheduleId,
                            ColorBytesChanged(lastColorStateBytes, bytes) \/ minuteElapsed)
    /\ NoSend
    /\ UNCHANGED << socket, liveSockets, isCurrentlyConnectedToSpa, reconnecting,
                    reconnectTimers, faultTimeouts, faultCheckIntervalId, orphanIntervals,
                    stateUpdateCheckIntervalId, stateUpdateCheckRemaining,
                    receivedStateUpdate, lastStateBytes, lastFaultBytes, errorLog,
                    repeatErrors, deviceUp, hostShutdown, accurateConfigReadFromSpa, frameVars,
                    platformVars, deviceStateVars, targetTempOverride, calls,
                    pumpsCurrentSpeed, pumpsOverrideSpeed, isFilterMode, pumpCalls >>

ChangeLightFrame ==
    /\ socket = "open"
    \* the light is off, or white
    /\ \E bytes \in { LightBytes(64, 0), LightBytes(65, 0) } :
          /\ ReceiveLight(bytes)
          /\ dev' = [dev EXCEPT !.lastLight = bytes,
                                !.lightSeen = TRUE,
                                !.lightRepeated = @ \/ (~dev.lightSeen /\ bytes = dev.lastLight)]

\* the platform's 250 ms timer fires: reallyUpdateStateOfAccessories
UpdateTimerFires ==
    /\ scheduleId # Undefined
    /\ scheduleId' = Undefined
    /\ NoSend
    /\ UNCHANGED << sessionVars, platformVars, deviceStateVars, pumpVars, frameVars,
                    targetTempOverride, calls, dev >>

ChangeNext ==
    \/ ChangeConnect
    \/ SocketError
    \/ SocketEnd
    \/ ReconnectTimerFires
    \/ FaultTimeoutFires
    \/ StateUpdateCheckFires
    \/ Tick
    \/ ChangeStatusFrame
    \/ ChangeLightFrame
    \/ UpdateTimerFires

ChangeSpec == ChangeInit /\ [][ChangeNext]_vars

\* C20: after every successful (re)connection, the first status frame and
\* the first light-status frame received each arm a new update timer of the
\* platform (the state-changed notification), whatever their bytes and
\* however recent the last forced update is
C20_FirstFrameReported ==
    [][ /\ (ChangeStatusFrame /\ ~dev.statusSeen => scheduleId' \notin { Undefined, scheduleId })
        /\ (ChangeLightFrame /\ ~dev.lightSeen => scheduleId' \notin { Undefined, scheduleId }) ]_vars

\* after a reconnection the first status frame and the first light-status
\* frame each repeated the last frame of the connection before
C20_Witness ==
    /\ dev.statusRepeated
    /\ dev.lightRepeated
    /\ scheduleId # Undefined

(***************************************************************************)
(* The inbound stream: the spa sends frames whole, in two chunks, or       *)
(* damaged, and the framer and the interpreter act on them                 *)
(***************************************************************************)

\* the ages of a cached chunk when the next one arrives, in ms
ChunkAges == { 0, 999, 1000 }

\* the books of the spa: what it sent last (a whole frame, a damaged frame
\* followed by a sound one, the first k bytes of a frame, the rest of it) and
\* what the client made of it; pending: a chunk was cached when it arrived;
\* was: receivedStateUpdate and currentTemp when it arrived
SpaBooks(kind, frame, k, diff, minuteElapsed, F, count) ==
    [ kind |-> kind, frame |-> frame, k |-> k, diff |-> diff, minuteElapsed |-> minuteElapsed,
      pending |-> lastIncompleteChunk # << >>,
      was |-> << receivedStateUpdate, currentTemp >>,
      decoded |-> F.decoded, reports |-> F.reports, changes |-> F.changes,
      configKnown |-> F.configKnown, warned |-> F.warned, passes |-> F.passes,
      count |-> count ]

StreamInit ==
    /\ EngineInit
    /\ InitDeviceState
    /\ InitRecentState
    /\ dev = SpaBooks("none", << >>, 0, 0, FALSE, CurF, 0)

\* the record the framer starts from; minuteElapsed: the last forced updates
\* are a minute old
Arrival(minuteElapsed) == [CurF EXCEPT !.spaDue = minuteElapsed, !.lightDue = minuteElapsed]

\* the 'data' listener runs readAndActOnSocketContents on a chunk
Deliver(kind, chunk, frame, k, diff, minuteElapsed) ==
    /\ socket = "open"
    /\ Len(lastIncompleteChunk) + Len(chunk) <= MaxPending
    /\ \E F1 \in { readAndActOnSocketContents(Arrival(minuteElapsed), chunk, diff) } :
          /\ CommitF(F1)
          /\ dev' = SpaBooks(kind, frame, k, diff, minuteElapsed, F1, Min(dev.count + 1, MaxChunks))
    /\ NoSend
    /\ UNCHANGED << socket, liveSockets, isCurrentlyConnectedToSpa, reconnecting,
                    reconnectTimers, faultTimeouts, faultCheckIntervalId, orphanIntervals,
                    stateUpdateCheckIntervalId, stateUpdateCheckRemaining,
                    repeatErrors, deviceUp, hostShutdown, platformVars,
                    targetTempOverride, calls, pumpsOverrideSpeed, pumpCalls >>

\* the ages to try: the age of a cached chunk matters only when there is one
AgesNow == IF lastIncompleteChunk = << >> THEN { 0 } ELSE ChunkAges

\* a frame arrives in one chunk
DeliverWhole ==
    /\ dev.kind # "first"
    /\ dev.count < MaxChunks
    /\ \E f \in StreamFrames, diff \in AgesNow, minuteElapsed \in BOOLEAN :
          Deliver("whole", f, f, 0, diff, minuteElapsed)

\* a damaged frame arrives, followed in the same chunk by a sound one
DeliverDamaged ==
    /\ dev.kind # "first"
    /\ dev.count < MaxChunks
    /\ \E f \in StreamFrames, g \in SplitFrames, diff \in AgesNow, minuteElapsed \in BOOLEAN :
          \E bad \in Damaged(f) : Deliver("damaged", concat(bad, g), g, Len(bad), diff, minuteElapsed)

\* a frame whose length byte is one too low, so that the byte tested as its
\* end is not 0x7e, with a sound or a bad first byte
Misframed(f) ==
    { SetAt(f, 1, At(f, 1) - 1), SetAt(SetAt(f, 0, 125), 1, At(f, 1) - 1) }

\* a frame with bad terminations arrives, followed in the same chunk by a
\* sound one
DeliverMisframed ==
    /\ dev.kind # "first"
    /\ dev.count < MaxChunks
    /\ \E f \in SplitFrames, g \in SplitFrames, diff \in AgesNow, minuteElapsed \in BOOLEAN :
          \E bad \in Misframed(f) :
             Deliver("misframed", concat(bad, g), g, Len(bad), diff, minuteElapsed)

\* the first k bytes of a frame arrive
DeliverFirstPart ==
    /\ dev.kind # "first"
    /\ dev.count < MaxChunks
    /\ lastIncompleteChunk = << >>
    /\ \E f \in SplitFrames, k \in 1..MaxFrameLen :
          /\ k < Len(f)
          /\ Deliver("first", Slice(f, 0, k), f, k, 0, FALSE)

\* the rest of the frame arrives
DeliverRest ==
    /\ dev.kind = "first"
    /\ \E diff \in ChunkAges, minuteElapsed \in BOOLEAN :
          Deliver("rest", SliceFrom(dev.frame, dev.k), dev.frame, dev.k, diff, minuteElapsed)

StreamNext ==
    \/ DeliverWhole
    \/ DeliverDamaged
    \/ DeliverMisframed
    \/ DeliverFirstPart
    \/ DeliverRest

StreamSpec == StreamInit /\ [][StreamNext]_vars

\* the Device State held in a record of the framer
DeviceState(F) ==
    << F.receivedStateUpdate, F.currentTemp, F.tempRangeIsHigh, F.tempChangeMode,
       F.targetTempModeHigh, F.targetTempModeLow, F.isFilterMode, F.pumpsCurrentSpeed,
       F.lightIsOn, F.lightStatus, F.flow, F.accurateConfigReadFromSpa,
       F.lastStateBytes, F.lastColorStateBytes, F.lastFaultBytes >>

\* what the framer makes of the whole frame in one chunk, from the state
\* the two chunks started from (nothing cached)
InOneChunk(frame, minuteElapsed) ==
    readAndActOnSocketContents([Arrival(minuteElapsed) EXCEPT !.lastIncompleteChunk = << >>],
                               frame, 0)

\* C21: for every well-formed frame and every split position inside it, the
\* two chunks delivered less than 1 second apart, with nothing cached before,
\* give the same decoded frames, Device State and notifications as the frame
\* delivered in one chunk.
C21_SplitAsOneChunk ==
    [][ (DeliverRest /\ dev'.diff < 1000)
        => \E One \in { InOneChunk(dev.frame, dev'.minuteElapsed) } :
              /\ dev'.decoded = One.decoded
              /\ dev'.changes = One.changes
              /\ DeviceState(CurF)' = DeviceState(One)
              /\ scheduleId' = One.scheduleId ]_vars

\* the same for the split positions after the second byte
SplitAfterLengthAsOneChunk ==
    [][ (DeliverRest /\ dev'.diff < 1000 /\ dev.k >= 2)
        => \E One \in { InOneChunk(dev.frame, dev'.minuteElapsed) } :
              /\ dev'.decoded = One.decoded
              /\ dev'.changes = One.changes
              /\ DeviceState(CurF)' = DeviceState(One)
              /\ scheduleId' = One.scheduleId ]_vars

\* C22: when a chunk is cached and the next chunk arrives 1 second or more
\* later, the cached chunk is discarded with a warning and not merged: the
\* rest of a split frame decodes nothing, a whole frame decodes as itself.
C22_StaleFragmentDiscarded ==
    (dev.pending /\ dev.diff >= 1000)
    => /\ dev.warned
       /\ dev.kind # "misframed"
          => dev.decoded = IF dev.kind = "rest" THEN << >> ELSE << dev.frame >>
       /\ dev.kind = "rest" => dev.changes = 0

C22_Witness ==
    /\ dev.kind = "rest"
    /\ dev.pending
    /\ dev.diff >= 1000
    /\ dev.warned
    /\ dev.decoded = << >>

\* the framer's errors
FramingErrors == { "Bad checksum", "Message with bad terminations encountered:" }

\* C23: a complete frame with a wrong checksum byte, or whose first or last
\* byte is not 0x7e, is not passed to the interpreter: Device State and
\* notifications are those of the sound frame that follows it in the chunk,
\* which is still parsed.
C23_DamagedFrameSkipped ==
    [][ (dev'.kind = "damaged" /\ dev'.count > dev.count /\ ~(dev'.pending /\ dev'.diff < 1000))
        => \E One \in { InOneChunk(dev'.frame, dev'.minuteElapsed) } :
              /\ dev'.decoded = << dev'.frame >>
              /\ dev'.changes = One.changes
              /\ DeviceState(CurF)' = DeviceState(One)
              /\ scheduleId' = One.scheduleId
              /\ errorLog' \cap FramingErrors # { } ]_vars

C23_Witness ==
    /\ dev.kind = "damaged"
    /\ ~dev.pending
    /\ dev.decoded = << dev.frame >>
    /\ dev.changes = 1
    /\ "Bad checksum" \in errorLog

\* getCurrentTemp
getCurrentTemp == IF currentTemp = Undefined THEN Undefined ELSE currentTemp

RECURSIVE LastStatus(_)
\* the last status frame among the decoded ones, << >> if there is none
LastStatus(decoded) ==
    IF decoded = << >> THEN << >>
    ELSE IF Slice(decoded[Len(decoded)], 2, 5) = StateReply THEN decoded[Len(decoded)]
    ELSE LastStatus(SubSeq(decoded, 1, Len(decoded) - 1))

\* C26: the current temperature reflects the most recent status frame:
\* unknown after a status frame whose byte 15 is 255, v after a later status
\* frame whose byte 15 is v, v # 255.
C26_TempOfLastStatusFrame ==
    \A v \in TempBytes :
        LastStatus(dev.decoded) = StatusFrames[v]
        => getCurrentTemp = IF v = 255 THEN Undefined ELSE v

C26_Witness ==
    /\ dev.was = << TRUE, Undefined >>
    /\ LastStatus(dev.decoded) = StatusFrames[70]
    /\ getCurrentTemp = 70

\* the number of reports of a change among the interpreter's reports
Changed(reports) == Cardinality({ i \in DOMAIN reports : reports[i] })

\* C27: changesCallback is invoked once for each frame the interpreter
\* reports as a change and for no other: a damaged frame is not passed to the
\* interpreter, a whole status frame with a new temperature gives exactly one
\* notification, a repeated one none unless the minute's forced update is due.
C27_OneCallbackPerChange ==
    [][ dev'.count > dev.count
        => /\ Len(dev'.reports) = Len(dev'.decoded)
           /\ dev'.changes = Changed(dev'.reports)
           /\ (dev'.kind = "damaged" /\ ~(dev'.pending /\ dev'.diff < 1000))
              => dev'.decoded = << dev'.frame >>
           /\ (dev'.kind = "whole" /\ ~(dev'.pending /\ dev'.diff < 1000)
                 /\ dev'.frame = StatusFrames[70])
              => dev'.changes = IF currentTemp # 70 \/ lastStateBytes = << >> \/ dev'.minuteElapsed
                                THEN 1 ELSE 0 ]_vars

C27_Witness ==
    /\ dev.kind = "whole"
    /\ dev.frame = StatusFrames[70]
    /\ dev.was = << TRUE, Undefined >>
    /\ ~dev.minuteElapsed
    /\ dev.reports = << TRUE >>
    /\ dev.changes = 1

(***************************************************************************)
(* The codec: the checksum and the cipher on frames drawn at the start.    *)
(* One experiment per run: a byte of a frame is changed and the frame      *)
(* given to the framer, a plain frame is enciphered with a key byte and    *)
(* deciphered, or a button press is sent and the packet deciphered.        *)
(***************************************************************************)

\* the panel status packet quoted in decrypt's comment, as sent by the spa
TypicalEncrypted ==
    << 126, 38, 255, 175, 196, 31, 21, 27, 26, 21, 22, 166, 236, 22, 16, 115, 16, 45,
       12, 71, 11, 104, 8, 10, 29, 5, 1, 34, 6, 176, 0, 3, 104, 103, 60, 63, 62, 57,
       147, 126 >>

\* the same packet decrypted, as the comment gives it (byte 5 kept)
TypicalDecrypted ==
    << 126, 38, 255, 175, 196, 31, 13, 0, 0, 8, 10, 185, 242, 7, 0, 96, 2, 56, 24, 80,
       29, 97, 0, 1, 23, 8, 13, 45, 8, 177, 0, 0, 106, 98, 56, 56, 56, 0, 138, 126 >>

\* the key bytes the spa enciphers with: 0 as the client does, and others
KeyBytes == { 0, 31, 128, 255 }

\* a plain frame enciphered by the spa with a key byte: the same XOR as
\* decrypt, the key byte kept at index 5, the checksum over the result
Enciphered(plain, key) ==
    Resummed(SetAt(decrypt(SetAt(plain, 5, key)), 5, key))

\* the plain frames of the enciphered types: a status frame, a light-status
\* frame, a button command as sendMessageToSpa widens it, the quoted packet
PlainFrames ==
    { PlainMessage(StateReply, [ n \in 1..(StatusPacketLen - 7) |-> IF n = 11 THEN 70 ELSE n ]),
      PlainMessage(LightStateReply, [ n \in 1..25 |-> IF n = 9 THEN 64 ELSE 3 * n ]),
      Widened(PlainMessage(SetPumpRequest, << 4 >>)),
      TypicalDecrypted }

\* the well-formed frames a byte of which is changed
SoundFrames ==
    { StatusFrames[70], FaultFrameOf(16, 0), LightFrameOf(64), TypicalEncrypted }

\* the frames every byte value is tried on are this short at most
ShortFrameLen == 16

\* the changes tried on a byte of a longer frame: each bit, all bits, some
ByteMasks == { 1, 2, 4, 8, 16, 32, 64, 128, 255, 7 }

\* the values a byte of a frame is changed to
CorruptValues(frame, index) ==
    IF Len(frame) <= ShortFrameLen THEN (0..255) \ { At(frame, index) }
    ELSE { Xor(At(frame, index), mask) : mask \in ByteMasks }

\* the payload bytes of a message: after the type, before the checksum
Payload(m) == Slice(m, 5, At(m, 1))

CodecBooks(kind, frame, index, wire, back, F) ==
    [ kind |-> kind, frame |-> frame, index |-> index, wire |-> wire, back |-> back,
      decoded |-> F.decoded, changes |-> F.changes ]

\* the length bytes and the bodies the two checksums are computed over
LengthBytes == { 0, 5, 38, 255 }

SumBytes == { 0, 1, 128, 255 }

MaxBody == 3

SumInputs ==
    { << length, body >> : length \in LengthBytes,
                           body \in UNION { [ 1..n -> SumBytes ] : n \in 0..MaxBody } }

CodecInit ==
    /\ EngineInit
    /\ InitDeviceState
    /\ InitRecentState
    /\ \E kind \in { "sound", "plain", "press", "sum" } :
          \E frame \in (IF kind = "sound" THEN SoundFrames
                        ELSE IF kind = "plain" THEN PlainFrames
                        ELSE IF kind = "press" THEN ButtonPresses ELSE SumInputs) :
             dev = CodecBooks(kind, frame, 0, << >>, << >>, CurF)

\* the framer runs on a chunk; the books keep the frame before the change
\* (wire), the chunk (frame) and the index of the byte changed
CodecDeliver(kind, chunk, index) ==
    /\ socket = "open"
    /\ \E F1 \in { readAndActOnSocketContents(CurF, chunk, 0) } :
          /\ CommitF(F1)
          /\ dev' = CodecBooks(kind, chunk, index, dev.frame, << >>, F1)
    /\ NoSend
    /\ UNCHANGED << socket, liveSockets, isCurrentlyConnectedToSpa, reconnecting,
                    reconnectTimers, faultTimeouts, faultCheckIntervalId, orphanIntervals,
                    stateUpdateCheckIntervalId, stateUpdateCheckRemaining,
                    repeatErrors, deviceUp, hostShutdown, platformVars,
                    targetTempOverride, calls, pumpsOverrideSpeed, pumpCalls >>

\* the frame arrives as the spa sent it
ReceiveIntact ==
    /\ dev.kind = "sound"
    /\ CodecDeliver("intact", dev.frame, 0)

\* the frame arrives with one payload byte changed to a different value
ReceiveCorrupted ==
    /\ dev.kind = "sound"
    /\ \E index \in 5..(MaxFrameLen - 1) :
          /\ index < At(dev.frame, 1)
          /\ \E value \in CorruptValues(dev.frame, index) :
                CodecDeliver("corrupted", SetAt(dev.frame, index, value), index)

\* the books of an experiment that leaves the client as it is
CodecNote(kind, wire, back) ==
    /\ dev' = CodecBooks(kind, dev.frame, 0, wire, back, CurF)
    /\ NoSend
    /\ UNCHANGED << sessionVars, platformVars, deviceStateVars, targetTempOverride, calls,
                    pumpVars, scheduleId, frameVars >>

\* the spa enciphers a plain frame with a key byte, decrypt deciphers it
Encipher ==
    /\ dev.kind = "plain"
    /\ \E key \in KeyBytes :
          \E wire \in { Enciphered(dev.frame, key) } :
             CodecNote("enciphered", wire, decrypt(wire))

\* sendMessageToSpa enciphers a button press, decrypt deciphers the packet
SendButton ==
    /\ dev.kind = "press"
    /\ \E packet \in { PacketsToWrite(dev.frame[1], dev.frame[2])[1] } :
          CodecNote("button", packet, decrypt(packet))

\* the checksum of a length byte and a body, as the framer computes it
\* (kept in wire) and as decrypt and sendMessageToSpa compute it (in back)
Checksums ==
    /\ dev.kind = "sum"
    /\ \E length \in { dev.frame[1] }, body \in { dev.frame[2] } :
          CodecNote("summed", << compute_checksum(<< length >>, body) >>,
                    << compute_checksum_encrypted(concat(<< length >>, body), Len(body) + 1) >>)

CodecNext ==
    \/ ReceiveIntact
    \/ ReceiveCorrupted
    \/ Encipher
    \/ SendButton
    \/ Checksums

CodecSpec == CodecInit /\ [][CodecNext]_vars

\* C24: a well-formed frame with one payload byte changed to a different
\* value has a recomputed checksum that differs from the stored one, and the
\* framer rejects it.
C24_CorruptionDetected ==
    dev.kind = "corrupted"
    => /\ At(dev.frame, At(dev.frame, 1))
            # compute_checksum(<< At(dev.frame, 1) >>, Slice(dev.frame, 2, At(dev.frame, 1)))
       /\ dev.decoded = << >>
       /\ dev.changes = 0
       /\ "Bad checksum" \in errorLog

C24_Witness ==
    /\ dev.kind = "corrupted"
    /\ dev.wire = StatusFrames[70]
    /\ dev.index = 15
    /\ dev.decoded = << >>
    /\ "Bad checksum" \in errorLog

\* C25: decrypt restores the payload of a frame enciphered with any key
\* byte, and the command payload of a button packet that sendMessageToSpa
\* enciphered.
C25_DecryptRestoresPayload ==
    /\ dev.kind = "enciphered"
       => /\ SliceFrom(Payload(dev.back), 1) = SliceFrom(Payload(dev.frame), 1)
          /\ SliceFrom(Payload(dev.wire), 1) # SliceFrom(Payload(dev.frame), 1)
    /\ dev.kind = "button"
       => /\ SliceFrom(Payload(dev.back), 1) = dev.frame[2]
          /\ SliceFrom(Payload(dev.wire), 1) # dev.frame[2]

C25_Witness ==
    /\ dev.kind = "button"
    /\ dev.frame = << SetPumpRequest, << 4 >> >>
    /\ SliceFrom(Payload(dev.back), 1) = << 4 >>

\* the packet quoted in decrypt's comment deciphers to the quoted payload
TypicalPacketDeciphered ==
    /\ SliceFrom(Payload(decrypt(TypicalEncrypted)), 1) = SliceFrom(Payload(TypicalDecrypted), 1)
    /\ Payload(Enciphered(TypicalDecrypted, 31)) = Payload(TypicalEncrypted)

(***************************************************************************)
(* The replies: whole frames arrive in reply to the client's requests (the *)
(* fault log, the capability reply, a reply that is only logged) and as    *)
(* status frames, while the connection is lost and made again. The books   *)
(* count spaConfigurationKnownCallback over the life of the client.        *)
(***************************************************************************)

\* the books of the spa: the frame it sent last and what the client made of
\* it, flow and the count of the configuration callback before the frame
\* (flowBefore, knownBefore) and after it (known), whether a status or
\* capability frame was interpreted (seen), whether a connection was made
\* after the callback (reconnected)
ReplyBooks(frame, F, known, seen, reconnected) ==
    [ frame |-> frame, flowBefore |-> flow, reports |-> F.reports, changes |-> F.changes,
      knownBefore |-> dev.known, known |-> known, seen |-> seen, reconnected |-> reconnected ]

ReplyInit ==
    /\ EngineInit
    /\ InitDeviceState
    /\ InitRecentState
    /\ dev = [ frame |-> << >>, flowBefore |-> FLOW_GOOD, reports |-> << >>, changes |-> 0,
               knownBefore |-> 0, known |-> 0, seen |-> FALSE, reconnected |-> FALSE ]

\* the connection is made (again)
ReplyConnect ==
    /\ Connected
    /\ dev' = [dev EXCEPT !.reconnected = dev.known > 0]

\* the frames that run interpretControlTypesReply
ConfigFrames == { StatusFrames[70], WireFrame(ControlTypesReply, << >>) }

\* the 'data' listener receives one whole frame
ReplyArrives ==
    /\ socket = "open"
    /\ \E frame \in ReplyFrames \cup { StatusFrames[70] }, minuteElapsed \in BOOLEAN :
          \E F1 \in { readAndActOnSocketContents(Arrival(minuteElapsed), frame, 0) } :
             /\ CommitF(F1)
             /\ dev' = ReplyBooks(frame, F1, Min(dev.known + F1.configKnown, 2),
                                  dev.seen \/ frame \in ConfigFrames, dev.reconnected)
    /\ NoSend
    /\ UNCHANGED << socket, liveSockets, isCurrentlyConnectedToSpa, reconnecting,
                    reconnectTimers, faultTimeouts, faultCheckIntervalId, orphanIntervals,
                    stateUpdateCheckIntervalId, stateUpdateCheckRemaining,
                    repeatErrors, deviceUp, hostShutdown, platformVars,
                    targetTempOverride, calls, pumpsOverrideSpeed, pumpCalls >>

ReplyNext ==
    \/ ReplyConnect
    \/ SocketError
    \/ ReconnectTimerFires
    \/ FaultTimeoutFires
    \/ StateUpdateCheckFires
    \/ Tick
    \/ ReplyArrives

ReplySpec == ReplyInit /\ [][ReplyNext]_vars

\* the fault-log frames, and the code and the age of the fault each holds
IsFaultFrame(frame) == Len(frame) > 8 /\ Slice(frame, 2, 5) = GetFaultsReply

FaultCode(frame) == At(frame, 7)

FaultDaysAgo(frame) == At(frame, 8)

\* the flow health of a fault code
FlowOfCode(code) ==
    IF code \in { 16, 28 } THEN FLOW_LOW
    ELSE IF code \in { 17, 27, 30 } THEN FLOW_FAILED
    ELSE FLOW_GOOD

\* C28 as stated: after every fault-log frame, flow health is Low for the
\* codes 16 and 28, Failed for 17, 27 and 30, Good for every other code.
C28_Original ==
    (IsFaultFrame(dev.frame) /\ lastFaultBytes # << >>) => flow = FlowOfCode(FaultCode(dev.frame))

\* C28 (amended): after every fault-log frame whose fault is of today
\* (daysAgo = 0), flow health is Low for the codes 16 and 28, Failed for 17,
\* 27 and 30, Good for every other code; after a fault-log frame whose fault
\* is older, flow health is Good whatever the code.
C28_FlowOfRecentFault ==
    (IsFaultFrame(dev.frame) /\ lastFaultBytes # << >>)
    => flow = IF FaultDaysAgo(dev.frame) = 0 THEN FlowOfCode(FaultCode(dev.frame)) ELSE FLOW_GOOD

C28_Witness ==
    /\ dev.frame = FaultFrameOf(17, 0)
    /\ lastFaultBytes # << >>
    /\ dev.flowBefore = FLOW_LOW
    /\ flow = FLOW_FAILED

\* C29: a fault-log frame reports a change exactly when flow health after
\* it differs from flow health before it.
C29_ChangeIffFlowMoves ==
    (IsFaultFrame(dev.frame) /\ lastFaultBytes # << >>)
    => (dev.reports = << flow # dev.flowBefore >>)

\* C30: spaConfigurationKnownCallback is invoked at most once in the life of
\* the client, and once as soon as a first status or capability frame is
\* interpreted; no later frame and no reconnection invokes it again, and a
\* later capability frame reports no change.
C30_ConfigurationKnownOnce ==
    /\ dev.known <= 1
    /\ dev.seen => dev.known = 1
    /\ dev.seen <=> accurateConfigReadFromSpa
    /\ (dev.frame = WireFrame(ControlTypesReply, << >>) /\ dev.knownBefore = 1)
       => (dev.reports = << FALSE >> /\ dev.changes = 0)

C30_Witness ==
    /\ dev.frame = WireFrame(ControlTypesReply, << >>)
    /\ dev.reconnected
    /\ socket = "open"
    /\ dev.knownBefore = 1
    /\ dev.known = 1
    /\ dev.reports = << FALSE >>

\* C31: after a frame with a bad start or end sentinel the framer resumes
\* at the next sentinel byte, so the well-formed frame that follows it in
\* the same chunk is decoded.
C31_ResumesAtNextSentinel ==
    (dev.kind = "misframed" /\ ~(dev.pending /\ dev.diff < 1000))
    => /\ "Message with bad terminations encountered:" \in errorLog
       /\ dev.decoded = << dev.frame >>

(***************************************************************************)
(* The status frames: whole status frames that differ in monitored and in  *)
(* other bytes arrive at different times after the last forced update.     *)
(***************************************************************************)

\* the time since spaLastUpdated when a frame arrives, in ms
RefreshAges == { 59999, 60000, 60001 }

\* spaLastUpdated <= one minute ago
OneMinuteAgo(elapsed) == elapsed >= 60000

\* the books of the spa: the status frame it sent last and the one before
\* (<< >> when the client holds no snapshot), the time since the last
\* forced update, and what the client reported
StatusBooks(frame, elapsed, F) ==
    [ kind |-> "status", frame |-> frame,
      before |-> IF lastStateBytes = << >> THEN << >> ELSE dev.frame,
      elapsed |-> elapsed, reports |-> F.reports, changes |-> F.changes ]

StatusInit ==
    /\ EngineInit
    /\ InitDeviceState
    /\ InitRecentState
    /\ dev = [ kind |-> "none", frame |-> << >>, before |-> << >>, elapsed |-> 0,
               reports |-> << >>, changes |-> 0 ]

\* the 'data' listener receives one whole status frame
StatusArrives ==
    /\ socket = "open"
    /\ \E frame \in StatusVariants, elapsed \in RefreshAges :
          \E F1 \in { readAndActOnSocketContents(Arrival(OneMinuteAgo(elapsed)), frame, 0) } :
             /\ CommitF(F1)
             /\ dev' = StatusBooks(frame, elapsed, F1)
    /\ NoSend
    /\ UNCHANGED << socket, liveSockets, isCurrentlyConnectedToSpa, reconnecting,
                    reconnectTimers, faultTimeouts, faultCheckIntervalId, orphanIntervals,
                    stateUpdateCheckIntervalId, stateUpdateCheckRemaining,
                    repeatErrors, deviceUp, hostShutdown, platformVars,
                    targetTempOverride, calls, pumpsOverrideSpeed, pumpCalls >>

\* the 'data' listener receives one whole frame of another type; the books
\* keep the status frames the spa sent, and the frame in 'other'
OtherArrives ==
    /\ socket = "open"
    /\ \E frame \in OtherFrames, elapsed \in { 59999, 60000 } :
          \E F1 \in { readAndActOnSocketContents(Arrival(OneMinuteAgo(elapsed)), frame, 0) } :
             /\ CommitF(F1)
             /\ dev' = [ kind |-> "other", frame |-> dev.frame, before |-> dev.before,
                         other |-> frame, elapsed |-> dev.elapsed, reports |-> F1.reports,
                         changes |-> F1.changes ]
    /\ NoSend
    /\ UNCHANGED << socket, liveSockets, isCurrentlyConnectedToSpa, reconnecting,
                    reconnectTimers, faultTimeouts, faultCheckIntervalId, orphanIntervals,
                    stateUpdateCheckIntervalId, stateUpdateCheckRemaining,
                    repeatErrors, deviceUp, hostShutdown, platformVars,
                    targetTempOverride, calls, pumpsOverrideSpeed, pumpCalls >>

\* resetRecentState: the snapshots are forgotten (after a connection, or
\* when a pump is turned off in filter mode)
SnapshotReset ==
    /\ socket = "open"
    /\ lastStateBytes # << >>
    /\ lastStateBytes' = << >>
    /\ lastColorStateBytes' = << >>
    /\ lastFaultBytes' = << >>
    /\ NoSend
    /\ UNCHANGED << socket, liveSockets, isCurrentlyConnectedToSpa, reconnecting,
                    reconnectTimers, faultTimeouts, faultCheckIntervalId, orphanIntervals,
                    stateUpdateCheckIntervalId, stateUpdateCheckRemaining, receivedStateUpdate,
                    errorLog, repeatErrors, deviceUp, hostShutdown, accurateConfigReadFromSpa,
                    platformVars, deviceStateVars, pumpVars, scheduleId, frameVars,
                    targetTempOverride, calls, dev >>

StatusNext ==
    \/ StatusArrives
    \/ OtherArrives
    \/ SnapshotReset

StatusSpec == StatusInit /\ [][StatusNext]_vars

\* the bytes of a status frame the client monitors
MonitoredBytes == { 8, 10, 15, 21 }

\* a monitored byte of the status frame differs from the one before, as the
\* spa enciphered them, or no frame of the same length came before
MonitoredDiffer ==
    \/ Len(dev.before) # Len(dev.frame)
    \/ \E i \in MonitoredBytes :
          At(decrypt(dev.before), i) # At(decrypt(dev.frame), i)

\* C32 as stated: a status frame is reported as changed if and only if a
\* monitored byte differs from the previous snapshot, or there is none of
\* the same length, or more than 60 seconds have passed since the last
\* forced update.
C32_Original ==
    (dev.kind = "status" /\ lastStateBytes # << >>)
    => (dev.reports = << MonitoredDiffer \/ dev.elapsed > 60000 >>)

\* C32 (amended): ... or 60 seconds or more have passed since the last
\* forced update; a status frame that differs from the previous one in
\* other bytes only, less than 60 seconds after it, reports no change.
C32_ChangedIffMonitoredOrMinute ==
    (dev.kind = "status" /\ lastStateBytes # << >>)
    => (dev.reports = << MonitoredDiffer \/ dev.elapsed >= 60000 >>)

C32_Witness ==
    /\ dev.kind = "status"
    /\ dev.frame = WireFrame(StateReply, StatusPayload(9, 8))
    /\ dev.before = WireFrame(StateReply, StatusPayload(30, 8))
    /\ lastStateBytes # << >>
    /\ dev.elapsed = 59999
    /\ dev.reports = << FALSE >>

\* C34: processing a config, preferences, panel-info, known-ignorable or
\* unrecognized frame leaves every Device State field unchanged and reports
\* no change, so no notification fires.
C34_OtherFramesChangeNothing ==
    [][ (dev'.kind = "other" /\ dev' # dev)
        => /\ DeviceState(CurF)' = DeviceState(CurF)
           /\ dev'.reports = << FALSE >>
           /\ dev'.changes = 0
           /\ scheduleId' = scheduleId ]_vars

C34_Witness ==
    /\ dev.kind = "other"
    /\ dev.other = WireFrame(<< 10, 191, 36 >>, [ n \in 1..21 |-> 64 + n ])
    /\ dev.reports = << FALSE >>
    /\ lastStateBytes # << >>

\* the key-byte slot of the packet is 0 and its checksum byte is the
\* checksum of its bytes
Sealed(packet) ==
    /\ At(packet, 5) = 0
    /\ At(packet, Len(packet) - 2)
          = compute_checksum_encrypted(SliceFrom(packet, 1), At(packet, 1) - 1)

C35_CommandsWriteOnlyOverrides ==
    [][ (PumpStartCall \/ PumpPoll \/ LightCall)
        => UNCHANGED << currentTemp, targetTempModeLow, targetTempModeHigh, tempRangeIsHigh,
                        pumpsCurrentSpeed, isFilterMode, lightIsOn, lightStatus, flow >> ]_vars

(***************************************************************************)
(* Overlapping calls of the Command Engine with a spa that applies every   *)
(* command: a call starts while an earlier one is in its wait              *)
(***************************************************************************)

\* the spa is in low range with setpoint 70 and the client has seen it in
\* low range only; timers are the calls in flight (their places in calls) in
\* the order their one-second timers were armed
RaceInit ==
    /\ EngineInit
    /\ dev = [ setLow |-> 70, setHigh |-> 100, rangeHigh |-> FALSE, start |-> 70,
               presses |-> 0, timers |-> << >> ]
    /\ tempRangeIsHigh = FALSE
    /\ targetTempModeHigh = Undefined
    /\ targetTempModeLow = 70
    /\ lastStateBytes = StatusBytes(0, 70)
    /\ lastColorStateBytes = << >>
    /\ lastFaultBytes = << >>
    /\ tempChangeMode = FALSE
    /\ targetTempOverride = Undefined
    /\ accurateConfigReadFromSpa = TRUE
    /\ currentTemp = 0
    /\ flow = FLOW_GOOD
    /\ lastIncompleteChunk = << >>

\* targets of the calls: one and two above the setpoint the run starts from
RaceTargets == { 71, 72 }

\* the place in InFlight(cs) of the call at place k of cs
PlaceInFlight(cs, k) == Cardinality({ n \in 1..k : cs[n].pc = "await" })

\* spa.setTargetTemperature(temp), by the user or by the replay of the
\* recorded actions, whether or not an earlier call is in flight
RaceStartCall ==
    /\ written = << >>
    /\ requests < MaxOverlap
    /\ \E temp \in RaceTargets :
          \E M1 \in { setTargetTemperature([CurM EXCEPT !.calls = InFlight(calls)], temp, socket,
                          targetTempModeLow, targetTempModeHigh, tempRangeIsHigh) } :
              /\ Commit(M1)
              /\ dev' = [dev EXCEPT !.timers =
                            [ n \in DOMAIN dev.timers |-> PlaceInFlight(calls, dev.timers[n]) ]
                            \o (IF M1.calls[Len(M1.calls)].pc = "await"
                                THEN << Len(M1.calls) >> ELSE << >>)]
    /\ requests' = requests + 1
    /\ UNCHANGED << sessionVars, deviceStateVars, pumpVars, scheduleId, frameVars >>

\* the one-second timer armed first fires, after the spa has applied the
\* last command: timers of one delay fire in the order they were armed
RacePoll ==
    /\ written = << >>
    /\ dev.timers # << >>
    /\ \E k \in { Head(dev.timers) } :
          \E M1 \in { AfterWait(CurM, k, socket, targetTempModeLow, targetTempModeHigh,
                                tempRangeIsHigh, tempChangeMode) } :
              /\ Commit(M1)
              /\ dev' = [dev EXCEPT !.timers = Tail(@) \o (IF M1.calls[k].pc = "await"
                                                           THEN << k >> ELSE << >>)]
    /\ UNCHANGED << sessionVars, deviceStateVars, pumpVars, scheduleId, frameVars, requests >>

RaceNext ==
    \/ RaceStartCall
    \/ RacePoll
    \/ DeviceApplies

RaceSpec == RaceInit /\ [][RaceNext]_vars /\ WF_vars(RacePoll) /\ WF_vars(DeviceApplies)

\* C36: when a second setTargetTemperature call starts while an earlier one
\* is still iterating, and the spa applies every command, the setpoint
\* eventually equals the target of the most recent call and both calls have
\* stopped sending commands.
C36_LastCallWins ==
    (Len(InFlight(calls)) >= 2)
    ~> [](/\ calls # << >>
          /\ InFlight(calls) = << >>
          /\ written = << >>
          /\ \A k \in { Len(calls) } : DevActive(dev) = calls[k].temp)

\* the framer's tests of a message: the sentinels and the checksum
PassesFramer(m) ==
    /\ At(m, 0) = 126
    /\ At(m, At(m, 1) + 1) = 126
    /\ At(m, At(m, 1)) = compute_checksum(<< At(m, 1) >>, Slice(m, 2, At(m, 1)))

\* C37: for every length byte and body the checksum the framer validates
\* with equals the bit-serial checksum decrypt and sendMessageToSpa embed,
\* so every frame the client rewrites or sends passes the framer's tests.
C37_ChecksumsAgree ==
    /\ dev.kind = "summed" => dev.wire = dev.back
    /\ dev.kind = "enciphered" => PassesFramer(dev.back)
    /\ dev.kind = "button" => PassesFramer(dev.wire)

C37_Witness ==
    /\ dev.kind = "summed"
    /\ dev.frame = << 255, << 128, 1, 255 >> >>
    /\ dev.wire = dev.back

\* the length of the chunk the spa sent last
ChunkLen(d) ==
    IF d.kind = "whole" THEN Len(d.frame)
    ELSE IF d.kind = "first" THEN d.k
    ELSE IF d.kind = "rest" THEN Len(d.frame) - d.k
    ELSE d.k + Len(d.frame)

\* what readAndActOnSocketContents leaves buffered is nothing, or one
\* fragment: bytes too few for the length they declare
OneFragment(pending) ==
    pending # << >> => (Len(pending) >= 2 /\ At(pending, 1) > Len(pending) - 2)

\* the call returns after passes that consume 2 bytes or more each
ConsumesTwoOrMore ==
    /\ 2 * dev'.passes <= Len(lastIncompleteChunk) + ChunkLen(dev')
    /\ Len(lastIncompleteChunk') <= Len(lastIncompleteChunk) + ChunkLen(dev') - 2 * dev'.passes

\* the fragment buffered before the chunk is buffered again, with the chunk
\* appended
BufferedAgain ==
    /\ Len(lastIncompleteChunk') = Len(lastIncompleteChunk) + ChunkLen(dev')
    /\ Slice(lastIncompleteChunk', 0, Len(lastIncompleteChunk)) = lastIncompleteChunk

\* C38 as stated: readAndActOnSocketContents returns for every chunk, each
\* pass of its loop stopping or consuming 2 bytes or more; it leaves at most
\* one fragment buffered; the next chunk merges with the fragment or
\* discards it, and nothing of the fragment is buffered after that chunk.
C38_Original ==
    [][ /\ ConsumesTwoOrMore
        /\ OneFragment(lastIncompleteChunk')
        /\ lastIncompleteChunk # << >>
           => /\ dev'.diff >= 1000 <=> dev'.warned
              /\ Len(lastIncompleteChunk') <= ChunkLen(dev') ]_vars

\* C38 (amended): ... the next chunk discards a fragment 1 second old or
\* older, and merges with a younger one; the fragment stays buffered after
\* that chunk only as the start of the merged bytes, when these are still
\* too few for the length they declare.
C38_FragmentMergedOrDiscarded ==
    [][ /\ ConsumesTwoOrMore
        /\ OneFragment(lastIncompleteChunk')
        /\ lastIncompleteChunk # << >>
           => /\ dev'.diff >= 1000 <=> dev'.warned
              /\ \/ Len(lastIncompleteChunk') <= ChunkLen(dev')
                 \/ dev'.diff < 1000 /\ BufferedAgain ]_vars

C38_Witness ==
    /\ dev.kind = "whole"
    /\ dev.pending
    /\ dev.diff = 999
    /\ dev.decoded = << >>
    /\ Len(lastIncompleteChunk) > Len(dev.frame)

\* C39: the client owns at most one open or connecting socket, and a
\* connection attempt is never started while the client is marked connected
\* (get_socket's "Already connected" branch is not taken), under every
\* interleaving of connect, error, end, liveness-check, reconnect-timer and
\* shutdown events.
C39_OneSocketNeverWhileConnected ==
    /\ liveSockets <= 1
    /\ (socket \in { "open", "connecting" } => liveSockets = 1)
    /\ (socket = "connecting" => ~isCurrentlyConnectedToSpa)
    /\ "Already connected, should not be trying again." \notin errorLog

\* a second connection is open, made by the reconnect timer after an error
\* on the first one
C39_Witness ==
    /\ socket = "open"
    /\ isCurrentlyConnectedToSpa
    /\ liveSockets = 1
    /\ orphanIntervals > 0

(***************************************************************************)
(* The thermostat's handlers: HomeKit gets and sets the characteristics    *)
(* while the connection comes and goes; the books keep the handler called  *)
(* last and the callbacks it made                                          *)
(***************************************************************************)

\* toCelsius, in ninths of a degree: (value - 32) * (5 / 9)
toCelsius(value) == (value - 32) * 5

\* the get handlers of the thermostat
ThermostatGetters ==
    { "getCurrentTemperature", "getTemperatureDisplayUnits", "getHeatingState",
      "getTargetHeatingState", "getTargetTemperature" }

\* the calls of its completion callback a handler makes, in order, each with
\* its arguments (error, value); value is the value HomeKit sets, in half
\* degrees Celsius, and temperature what the spa returns (Fahrenheit)
ThermostatCallbacks(handler, connected, value, temperature) ==
    IF handler = "setTargetHeatingState"
    THEN IF ~connected THEN << << "connectionProblem" >> >>
         ELSE << >>                     \* "do nothing here", return
    ELSE IF ~connected THEN << << "connectionProblem" >> >>
    ELSE IF handler = "getCurrentTemperature"
    THEN << << "null", toCelsius(IF temperature = Undefined THEN 50 ELSE temperature) >> >>
    ELSE IF handler = "getTargetTemperature"
    THEN LET temperatureC == toCelsius(IF temperature = Undefined THEN 10 ELSE temperature)
         IN  IF temperatureC > 40 * 9 \/ temperatureC < 10 * 9
             THEN << << "null", 10 * 9 >> >>
             ELSE << << "null", temperatureC >> >>
    ELSE IF handler = "setTargetTemperature"
    THEN IF value < 20 THEN << << "out of bounds" >> >>
         ELSE IF value > 80 THEN << << "out of bounds" >> >>
         ELSE << << "null" >> >>
    \* getTemperatureDisplayUnits, getHeatingState, getTargetHeatingState
    ELSE << << "null", handler >> >>

\* target temperatures HomeKit sets, in half degrees Celsius: 9, 35 and 41
ThermostatValues == { 18, 70, 82 }

ThermostatBooks(handler, value, temperature) ==
    << [ handler |-> handler, connected |-> isCurrentlyConnectedToSpa, value |-> value,
         callbacks |-> ThermostatCallbacks(handler, isCurrentlyConnectedToSpa, value,
                                           temperature) ] >>

\* HomeKit reads a characteristic
ThermostatGet ==
    /\ \E handler \in ThermostatGetters :
          dev' = ThermostatBooks(handler, 0,
                    IF handler = "getTargetTemperature"
                    THEN getTargetTemp(targetTempOverride, targetTempModeLow,
                                       targetTempModeHigh, tempRangeIsHigh)
                    ELSE getCurrentTemp)
    /\ NoSend
    /\ UNCHANGED << sessionVars, platformVars, deviceStateVars, pumpVars, scheduleId,
                    frameVars, targetTempOverride, calls >>

\* HomeKit sets the target temperature
ThermostatSetTargetTemperature ==
    /\ requests < MaxRequests
    /\ \E value \in ThermostatValues :
          /\ \E M1 \in { AccessorySetTargetTemperature(CurM, value, isCurrentlyConnectedToSpa,
                             socket, targetTempModeLow, targetTempModeHigh, tempRangeIsHigh) } :
                Commit(M1)
          /\ dev' = ThermostatBooks("setTargetTemperature", value, Undefined)
    /\ requests' = requests + 1
    /\ UNCHANGED << sessionVars, deviceStateVars, pumpVars, scheduleId, frameVars >>

\* HomeKit sets the target heating state
ThermostatSetTargetHeatingState ==
    /\ requests < MaxRequests
    /\ \E value \in HeatingStateValues :
          /\ \E M1 \in { AccessorySetTargetHeatingState(CurM, value, isCurrentlyConnectedToSpa) } :
                Commit(M1)
          /\ dev' = ThermostatBooks("setTargetHeatingState", value, Undefined)
    /\ requests' = requests + 1
    /\ UNCHANGED << sessionVars, deviceStateVars, pumpVars, scheduleId, frameVars >>

ThermostatNext ==
    \/ ThermostatGet
    \/ ThermostatSetTargetTemperature
    \/ ThermostatSetTargetHeatingState
    \/ ConnectSucceeds
    \/ SocketError
    \/ ReconnectTimerFires
    \/ FaultTimeoutFires
    \/ StateUpdateCheckFires
    \/ Tick

ThermostatSpec == PlatformInit /\ [][ThermostatNext]_vars

\* C40: every thermostat get and set handler invokes its completion
\* callback exactly once per call, connected or not, the value in range or
\* out of range.
C40_OneCallbackPerCall ==
    \A n \in DOMAIN dev : Len(dev[n].callbacks) = 1

====
